---- MODULE Spec2Model ----
(***************************************************************************)
(* Panel time-series signal engine of the stock-picking pipeline:          *)
(*   LabelGenerator.generate_labels            (src/app/labels.py)         *)
(*   TechnicalIndicators                       (src/app/indicators.py)     *)
(*   EventDetector.detect_all_events           (src/app/event_detector.py) *)
(*                                                                         *)
(* A panel (pandas DataFrame) is a record [cols, rows]: the set of column  *)
(* names and the sequence of rows, each row a function from cols to cells. *)
(* stock_id and date cells are integers.  A numeric cell is NaN (<<>>) or  *)
(* an exact rational <<num, den>> in lowest terms with den >= 0; den = 0   *)
(* stands for a float infinity.                                            *)
(***************************************************************************)
EXTENDS Integers, Sequences, FiniteSets, TLC

VARIABLES
    df,          \* the caller's panel (first call)
    df2,         \* a second panel derived from df (second call)
    horizon,     \* LabelGenerator(horizon=...)
    threshold,   \* LabelGenerator(threshold=...)
    config,      \* EventDetector.config['events']: the rule descriptors
    labels,      \* outcome of generate_labels(df)
    labels2,     \* outcome of generate_labels(df2)
    indicators,  \* outcome of TechnicalIndicators(df).calculate_all_indicators()
    indicators2, \* the same on df2
    events,      \* outcome of EventDetector(df).detect_all_events()
    events2,     \* the same on df2
    variant,     \* how df2 was derived from df
    pc           \* position of the driver script

vars == <<df, df2, horizon, threshold, config, labels, labels2,
          indicators, indicators2, events, events2, variant, pc>>

----------------------------------------------------------------------------
(* Numeric cells (float64 columns)                                         *)

NaN == <<>>

IsNum(x) == x # NaN

Abs(n) == IF n < 0 THEN -n ELSE n

RECURSIVE GCD(_, _)
GCD(a, b) == IF b = 0 THEN a ELSE GCD(b, a % b)

\* n/d as a cell: 0/0 is NaN, x/0 is a signed infinity
Norm(n, d) ==
    IF d = 0
    THEN IF n = 0 THEN NaN ELSE <<(IF n > 0 THEN 1 ELSE -1), 0>>
    ELSE LET g == GCD(Abs(n), Abs(d))
             s == IF d < 0 THEN -1 ELSE 1
         IN  <<(s * n) \div g, (s * d) \div g>>

R(n) == <<n, 1>>

\* comparisons: False as soon as one side is NaN
Gt(a, b) == IsNum(a) /\ IsNum(b) /\ a[1] * b[2] > b[1] * a[2]
Ge(a, b) == IsNum(a) /\ IsNum(b) /\ a[1] * b[2] >= b[1] * a[2]
Lt(a, b) == Gt(b, a)
Le(a, b) == Ge(b, a)

Add(a, b) == IF IsNum(a) /\ IsNum(b)
             THEN Norm(a[1] * b[2] + b[1] * a[2], a[2] * b[2]) ELSE NaN
Sub(a, b) == IF IsNum(a) /\ IsNum(b)
             THEN Norm(a[1] * b[2] - b[1] * a[2], a[2] * b[2]) ELSE NaN
Mul(a, b) == IF IsNum(a) /\ IsNum(b)
             THEN Norm(a[1] * b[1], a[2] * b[2]) ELSE NaN
Div(a, b) == IF IsNum(a) /\ IsNum(b)
             THEN Norm(a[1] * b[2], a[2] * b[1]) ELSE NaN

AsInt(b) == IF b THEN 1 ELSE 0

----------------------------------------------------------------------------
(* Series (one column of one group, in row order)                          *)

\* the series as a concrete array (pandas computes every column eagerly)
Array(x) == SelectSeq(x, LAMBDA e : TRUE)

Hi(a, b) == IF a > b THEN a ELSE b
Lo(a, b) == IF a < b THEN a ELSE b

\* the number of non-NaN observations of x at positions lo..hi
RECURSIVE Count(_, _, _)
Count(x, lo, hi) ==
    IF lo > hi THEN 0 ELSE AsInt(IsNum(x[hi])) + Count(x, lo, hi - 1)

\* max / min / sum of the non-NaN observations of x at positions lo..hi
RECURSIVE MaxOf(_, _, _)
MaxOf(x, lo, hi) ==
    IF lo > hi THEN NaN
    ELSE LET m == MaxOf(x, lo, hi - 1)
         IN  IF ~IsNum(x[hi]) THEN m
             ELSE IF ~IsNum(m) \/ Gt(x[hi], m) THEN x[hi] ELSE m

RECURSIVE MinOf(_, _, _)
MinOf(x, lo, hi) ==
    IF lo > hi THEN NaN
    ELSE LET m == MinOf(x, lo, hi - 1)
         IN  IF ~IsNum(x[hi]) THEN m
             ELSE IF ~IsNum(m) \/ Lt(x[hi], m) THEN x[hi] ELSE m

RECURSIVE SumOf(_, _, _)
SumOf(x, lo, hi) ==
    IF lo > hi THEN R(0)
    ELSE IF IsNum(x[hi]) THEN Add(SumOf(x, lo, hi - 1), x[hi])
    ELSE SumOf(x, lo, hi - 1)

\* Series.shift(k): k = 1 reads the preceding position, k = -1 the next one
Shift(x, k) ==
    Array([i \in 1..Len(x) |-> IF i - k \in 1..Len(x) THEN x[i - k] ELSE NaN])

\* Series.rolling(window=w).max(): trailing window ending at i, min_periods = w
RollingMax(x, w) ==
    Array([i \in 1..Len(x) |->
        IF Count(x, Hi(1, i - w + 1), i) >= w
        THEN MaxOf(x, Hi(1, i - w + 1), i) ELSE NaN])

RollingMin(x, w) ==
    Array([i \in 1..Len(x) |->
        IF Count(x, Hi(1, i - w + 1), i) >= w
        THEN MinOf(x, Hi(1, i - w + 1), i) ELSE NaN])

RollingMean(x, w) ==
    Array([i \in 1..Len(x) |->
        IF Count(x, Hi(1, i - w + 1), i) >= w
        THEN Div(SumOf(x, Hi(1, i - w + 1), i), R(Count(x, Hi(1, i - w + 1), i)))
        ELSE NaN])

\* Series.rolling(window=FixedForwardWindowIndexer(window_size=w)).max():
\* window i .. i+w-1 clipped at the end of the series, min_periods = w
ForwardRollingMax(x, w) ==
    Array([i \in 1..Len(x) |->
        IF Count(x, i, Lo(Len(x), i + w - 1)) >= w
        THEN MaxOf(x, i, Lo(Len(x), i + w - 1)) ELSE NaN])

ForwardRollingMin(x, w) ==
    Array([i \in 1..Len(x) |->
        IF Count(x, i, Lo(Len(x), i + w - 1)) >= w
        THEN MinOf(x, i, Lo(Len(x), i + w - 1)) ELSE NaN])

----------------------------------------------------------------------------
(* Panels                                                                  *)

NoPanel == [cols |-> {}, rows |-> <<>>]

BarCols == {"stock_id", "date", "open", "high", "low", "close", "volume"}

Stocks(rows) == {rows[i]["stock_id"] : i \in DOMAIN rows}

\* lexicographic order of rows on the two sort keys k1, k2
RowLess(k1, k2, a, b) ==
    \/ a[k1] < b[k1]
    \/ a[k1] = b[k1] /\ a[k2] < b[k2]

\* r put into the sorted rows: after every row that is not greater than it
Insert(sorted, k1, k2, r) ==
    LET n == Len(sorted)
        at == IF \E j \in 1..n : RowLess(k1, k2, r, sorted[j])
              THEN (CHOOSE j \in 1..n :
                       /\ RowLess(k1, k2, r, sorted[j])
                       /\ \A m \in 1..(j - 1) : ~RowLess(k1, k2, r, sorted[m]))
              ELSE n + 1
    IN  SubSeq(sorted, 1, at - 1) \o <<r>> \o SubSeq(sorted, at, n)

\* DataFrame.sort_values([k1, k2]); rows with equal keys keep their order
RECURSIVE SortValues(_, _, _)
SortValues(rows, k1, k2) ==
    IF Len(rows) = 0 THEN <<>>
    ELSE Insert(SortValues(SubSeq(rows, 1, Len(rows) - 1), k1, k2),
                k1, k2, rows[Len(rows)])

\* row positions of one stock_id group, in row order
GroupIdx(rows, s) ==
    SelectSeq([i \in 1..Len(rows) |-> i], LAMBDA i : rows[i]["stock_id"] = s)

\* the column col of the rows at positions idx
Series(rows, idx, col) == Array([k \in 1..Len(idx) |-> rows[idx[k]][col]])

\* one group's result, each value with the position of its row
Indexed(idx, y) == Array([k \in 1..Len(idx) |-> <<idx[k], y[k]>>])

\* the group keys in the order groupby iterates them (sorted)
RECURSIVE GroupKeys(_)
GroupKeys(S) ==
    IF S = {} THEN <<>>
    ELSE LET s == CHOOSE s \in S : \A t \in S : s <= t
         IN  <<s>> \o GroupKeys(S \ {s})

\* pd.concat(signals): the groups' results one after the other
RECURSIVE Concat(_)
Concat(parts) ==
    IF Len(parts) = 0 THEN <<>> ELSE Head(parts) \o Concat(Tail(parts))

\* Series.sort_index() of position/value pairs: the values in row order
SortIndex(pairs) ==
    Array([i \in 1..Len(pairs) |->
             pairs[CHOOSE k \in 1..Len(pairs) : pairs[k][1] = i][2]])

everything(rows) ==
    IF Len(rows) = 0 THEN <<>> ELSE <<Array([i \in 1..Len(rows) |-> i])>>

\* df.groupby('stock_id'): the row positions of each group, the groups in
\* key order
groupby(rows) ==
    LET keys == GroupKeys(Stocks(rows))
    IN  Array([k \in 1..Len(keys) |-> GroupIdx(rows, keys[k])])

\* the groups' results put back on the rows they came from: what transform
\* returns, and pd.concat(signals).sort_index()
PutBack(groups, parts) ==
    SortIndex(Concat(Array([k \in 1..Len(groups) |->
                              Indexed(groups[k], parts[k])])))

----------------------------------------------------------------------------
(* LabelGenerator  (src/app/labels.py)                                     *)

required_without_close == {"stock_id", "date", "open"}

required == {"stock_id", "date", "open", "close"}

idx_20 == 20

idx_5 == 5

\* outcome of a call: the exception raised ("" when none), the panel
\* returned (NoPanel when it raised) and the caller's panel after the call
Raise(exc, panel) == [raised |-> exc, out |-> NoPanel, caller |-> panel]

Return_in_place(result, panel) == [raised |-> "", out |-> result, caller |-> result]

Return(result, panel) == [raised |-> "", out |-> result, caller |-> panel]

NotCalled == [raised |-> "not called", out |-> NoPanel, caller |-> NoPanel]

entry_price_ungrouped(rows) ==
    Shift(Array([i \in 1..Len(rows) |-> rows[i]["open"]]), -1)

\* df.groupby('stock_id')['open'].shift(-1)
entry_price(rows) ==
    LET g == groupby(rows)
    IN  PutBack(g, Array([k \in 1..Len(g) |->
                            Shift(Series(rows, g[k], "open"), -1)]))

\* df.groupby('stock_id')['high'].rolling(window=indexer).max()
future_max_20d(rows) ==
    LET g == groupby(rows)
    IN  PutBack(g, Array([k \in 1..Len(g) |->
                            ForwardRollingMax(Series(rows, g[k], "high"), idx_20)]))

high_roll_20_unshifted(x) == ForwardRollingMax(x, idx_20)

high_roll_20_of_21(x) == Shift(ForwardRollingMax(x, idx_20 + 1), -1)

\* lambda x: x.rolling(window=idx_20).max().shift(-1)
high_roll_20_of(x) == Shift(ForwardRollingMax(x, idx_20), -1)

\* lambda x: x.rolling(window=idx_5).min().shift(-1)
low_roll_5_of(x) == Shift(ForwardRollingMin(x, idx_5), -1)

\* df.groupby('stock_id')['high'].transform(high_roll_20_of)
high_roll_20(rows) ==
    LET g == groupby(rows)
    IN  PutBack(g, Array([k \in 1..Len(g) |->
                            high_roll_20_of(Series(rows, g[k], "high"))]))

\* df.groupby('stock_id')['low'].transform(low_roll_5_of)
low_roll_5(rows) ==
    LET g == groupby(rows)
    IN  PutBack(g, Array([k \in 1..Len(g) |->
                            low_roll_5_of(Series(rows, g[k], "low"))]))

cond_profit_or_null(hr, ep, thr) == ~IsNum(hr) \/ Ge(hr, Mul(ep, Add(R(1), thr)))

cond_profit(hr, ep, thr) == Ge(hr, Mul(ep, Add(R(1), thr)))

cond_survive_inclusive(lr, ep, thr) == Ge(lr, Mul(ep, Sub(R(1), thr)))

cond_survive(lr, ep, thr) == Gt(lr, Mul(ep, Sub(R(1), thr)))

LabelCols == {"entry_price", "future_max_20d", "high_roll_20", "low_roll_5",
              "target", "future_return", "return_5d", "exit_price"}

generate_labels(panel, hor, thr) ==
    IF ~(required \subseteq panel.cols) THEN Raise("ValueError", panel)
    ELSE IF "high" \notin panel.cols \/ "low" \notin panel.cols
    THEN Raise("KeyError", panel)
    ELSE
      LET sorted == SortValues(panel.rows, "stock_id", "date")
          ep == entry_price(sorted)
          fm == future_max_20d(sorted)
          hr == high_roll_20(sorted)
          lr == low_roll_5(sorted)
          labelled(i) ==
              LET fr == Sub(Div(hr[i], ep[i]), R(1))
              IN  [c \in panel.cols \cup LabelCols |->
                     CASE c = "entry_price"    -> ep[i]
                       [] c = "future_max_20d" -> fm[i]
                       [] c = "high_roll_20"   -> hr[i]
                       [] c = "low_roll_5"     -> lr[i]
                       [] c = "target"         ->
                             R(AsInt(cond_profit(hr[i], ep[i], thr)
                                     /\ cond_survive(lr[i], ep[i], thr)))
                       [] c = "future_return"  -> fr
                       [] c = "return_5d"      -> fr
                       [] c = "exit_price"     -> hr[i]
                       [] OTHER                -> sorted[i][c]]
      IN  Return([cols |-> panel.cols \cup LabelCols,
                  rows |-> Array([i \in 1..Len(sorted) |-> labelled(i)])], panel)

----------------------------------------------------------------------------
(* TechnicalIndicators  (src/app/indicators.py)                            *)
(*                                                                         *)
(* The engine pivots every base column into a wide table, one row per date *)
(* of the panel and one column per stock_id, and computes every indicator  *)
(* column-wise on the wide tables.  A wide table is modelled as one series *)
(* per stock over the sorted dates of the whole panel; a stock has NaN on  *)
(* the dates on which it has no row.  The columns built on ewm() (ema*,    *)
(* macd*, k, d and their crosses) and on rolling std (bb_upper, bb_lower,  *)
(* bb_width) are real-valued recursions and roots that exact rationals of  *)
(* this width cannot carry on the panels of calculate_all_indicators; they *)
(* are not part of IndicatorColumns.  calculate_rsi is modelled on its     *)
(* own, for short histories of small prices.                               *)

\* position of v in the sequence q
IndexOf(q, v) == CHOOSE k \in 1..Len(q) : q[k] = v

PanelDates(rows) == GroupKeys({rows[i]["date"] : i \in DOMAIN rows})

\* self.df.pivot(index='date', columns='stock_id', values=col), stock s
pivot(rows, col, s) ==
    LET dates == PanelDates(rows)
    IN  Array([t \in 1..Len(dates) |->
            IF \E i \in DOMAIN rows :
                  rows[i]["date"] = dates[t] /\ rows[i]["stock_id"] = s
            THEN rows[CHOOSE i \in DOMAIN rows :
                  rows[i]["date"] = dates[t] /\ rows[i]["stock_id"] = s][col]
            ELSE NaN])

\* self.pivots of one stock: its open/high/low/close/volume over the dates
pivots(rows, s) ==
    [c \in {"open", "high", "low", "close", "volume"} |-> pivot(rows, c, s)]

\* element-wise helpers on aligned series
Flag(b) == R(AsInt(b))

AbsR(x) == IF IsNum(x) /\ x[1] < 0 THEN <<-x[1], x[2]>> ELSE x

\* np.maximum(a, b): NaN as soon as one side is NaN
Maximum(a, b) == IF ~IsNum(a) \/ ~IsNum(b) THEN NaN ELSE IF Gt(a, b) THEN a ELSE b

\* Series.clip(0, 1)
Clip01(x) == IF ~IsNum(x) THEN NaN
             ELSE IF Lt(x, R(0)) THEN R(0) ELSE IF Gt(x, R(1)) THEN R(1) ELSE x

\* calculate_ma: close.rolling(window=period).mean()
calculate_ma(pv, period) == RollingMean(pv["close"], period)

\* calculate_bollinger_bands: the middle band
bb_middle(pv) == RollingMean(pv["close"], 20)

\* calculate_breakout_flag: close > high.shift(1).rolling(lookback).max()
calculate_breakout_flag(pv, lookback_period) ==
    LET rolling_max == RollingMax(Shift(pv["high"], 1), lookback_period)
    IN  Array([t \in 1..Len(rolling_max) |->
                 Flag(Gt(pv["close"][t], rolling_max[t]))])

\* calculate_volume_spike: volume > volume.rolling(ma_period).mean() * multiplier
calculate_volume_spike(pv, ma_period, multiplier) ==
    LET vol_ma == RollingMean(pv["volume"], ma_period)
    IN  Array([t \in 1..Len(vol_ma) |->
                 Flag(Gt(pv["volume"][t], Mul(vol_ma[t], multiplier)))])

\* calculate_position_indicators, one period
pct_from_high(pv, period) ==
    LET rolling_high == RollingMax(pv["high"], period)
    IN  Array([t \in 1..Len(rolling_high) |->
          Mul(Div(Sub(pv["close"][t], rolling_high[t]), rolling_high[t]), R(100))])

pct_from_low(pv, period) ==
    LET rolling_low == RollingMin(pv["low"], period)
    IN  Array([t \in 1..Len(rolling_low) |->
          Mul(Div(Sub(pv["close"][t], rolling_low[t]), rolling_low[t]), R(100))])

relative_position(pv, period) ==
    LET rolling_high == RollingMax(pv["high"], period)
        rolling_low  == RollingMin(pv["low"], period)
    IN  Array([t \in 1..Len(rolling_high) |->
          Clip01(Div(Sub(pv["close"][t], rolling_low[t]),
                     Sub(rolling_high[t], rolling_low[t])))])

\* calculate_ma_squeeze: (max - min) / mean of ma5, ma10, ma20, ma60
calculate_ma_squeeze(pv) ==
    LET m == <<calculate_ma(pv, 5), calculate_ma(pv, 10),
               calculate_ma(pv, 20), calculate_ma(pv, 60)>>
    IN  Array([t \in 1..Len(pv["close"]) |->
          LET ma_stack == Array([k \in 1..4 |-> m[k][t]])
          IN  IF Count(ma_stack, 1, 4) < 4 THEN NaN
              ELSE Div(Sub(MaxOf(ma_stack, 1, 4), MinOf(ma_stack, 1, 4)),
                       Div(SumOf(ma_stack, 1, 4), R(4)))])

\* calculate_bias_ratio, one period: (close - ma) / ma
calculate_bias_ratio(pv, period) ==
    LET ma == calculate_ma(pv, period)
    IN  Array([t \in 1..Len(ma) |-> Div(Sub(pv["close"][t], ma[t]), ma[t])])

\* (a > b) & (a.shift(1) <= b.shift(1))
CrossUp(a, b) ==
    LET pa == Shift(a, 1)
        pb == Shift(b, 1)
    IN  Array([t \in 1..Len(a) |-> Flag(Gt(a[t], b[t]) /\ Le(pa[t], pb[t]))])

\* (a < b) & (a.shift(1) >= b.shift(1))
CrossDown(a, b) ==
    LET pa == Shift(a, 1)
        pb == Shift(b, 1)
    IN  Array([t \in 1..Len(a) |-> Flag(Lt(a[t], b[t]) /\ Ge(pa[t], pb[t]))])

\* calculate_binary_events: gap_up = (open > high.shift(1)) & (close > open)
gap_up_close_strong(pv) ==
    LET prev_high == Shift(pv["high"], 1)
    IN  Array([t \in 1..Len(prev_high) |->
          Flag(Gt(pv["open"][t], prev_high[t]) /\ Gt(pv["close"][t], pv["open"][t]))])

\* calculate_binary_events: long upper shadow
long_upper_shadow(pv) ==
    Array([t \in 1..Len(pv["close"]) |->
      LET body == AbsR(Sub(pv["close"][t], pv["open"][t]))
          upper_shadow == Sub(pv["high"][t], Maximum(pv["close"][t], pv["open"][t]))
      IN  Flag(/\ Gt(upper_shadow, Mul(body, R(2)))
               /\ Gt(upper_shadow, Mul(pv["close"][t], Norm(5, 1000))))])

\* every indicator column of one stock, by column name (volume_spike_1_5x is
\* the column 'volume_spike_1.5x')
IndicatorColumns(pv) ==
    LET ma5  == calculate_ma(pv, 5)
        ma20 == calculate_ma(pv, 20)
    IN
    [ma5 |-> ma5, ma10 |-> calculate_ma(pv, 10), ma20 |-> ma20,
     ma60 |-> calculate_ma(pv, 60),
     bb_middle |-> bb_middle(pv),
     breakout_flag |-> calculate_breakout_flag(pv, 60),
     volume_spike |-> calculate_volume_spike(pv, 20, R(2)),
     pct_from_high_60d |-> pct_from_high(pv, 60),
     pct_from_low_60d |-> pct_from_low(pv, 60),
     relative_position_60d |-> relative_position(pv, 60),
     pct_from_high_250d |-> pct_from_high(pv, 250),
     pct_from_low_250d |-> pct_from_low(pv, 250),
     relative_position_250d |-> relative_position(pv, 250),
     ma_squeeze |-> calculate_ma_squeeze(pv),
     bias_5 |-> calculate_bias_ratio(pv, 5),
     bias_10 |-> calculate_bias_ratio(pv, 10),
     bias_20 |-> calculate_bias_ratio(pv, 20),
     bias_60 |-> calculate_bias_ratio(pv, 60),
     break_20d_high |-> calculate_breakout_flag(pv, 20),
     ma5_cross_ma20_up |-> CrossUp(ma5, ma20),
     ma5_cross_ma20_down |-> CrossDown(ma5, ma20),
     close_above_bb_mid |-> CrossUp(pv["close"], ma20),
     close_below_bb_mid |-> CrossDown(pv["close"], ma20),
     volume_spike_1_5x |-> calculate_volume_spike(pv, 20, Norm(3, 2)),
     gap_up_close_strong |-> gap_up_close_strong(pv),
     long_upper_shadow |-> long_upper_shadow(pv)]

IndicatorNames ==
    {"ma5", "ma10", "ma20", "ma60", "bb_middle", "breakout_flag", "volume_spike",
     "pct_from_high_60d", "pct_from_low_60d", "relative_position_60d",
     "pct_from_high_250d", "pct_from_low_250d", "relative_position_250d",
     "ma_squeeze", "bias_5", "bias_10", "bias_20", "bias_60", "break_20d_high",
     "ma5_cross_ma20_up", "ma5_cross_ma20_down", "close_above_bb_mid",
     "close_below_bb_mid", "volume_spike_1_5x", "gap_up_close_strong",
     "long_upper_shadow"}

calculate_all_indicators_keep_existing(panel) ==
    IF ~(BarCols \subseteq panel.cols) THEN Raise("KeyError", panel)
    ELSE
      LET sorted == SortValues(panel.rows, "date", "stock_id")
          dates  == PanelDates(sorted)
          ids    == GroupKeys(Stocks(sorted))
          wide   == Array([k \in 1..Len(ids) |->
                       IndicatorColumns(pivots(sorted, ids[k]))])
          merged(i) ==
              LET k == IndexOf(ids, sorted[i]["stock_id"])
                  t == IndexOf(dates, sorted[i]["date"])
              IN  [c \in panel.cols \cup IndicatorNames |->
                     IF c \in panel.cols THEN sorted[i][c] ELSE wide[k][c][t]]
      IN  Return([cols |-> panel.cols \cup IndicatorNames,
                  rows |-> Array([i \in 1..Len(sorted) |-> merged(i)])], panel)

\* TechnicalIndicators(df).calculate_all_indicators(): the constructor sorts a
\* copy by (date, stock_id) and pivots the base columns; every family reads
\* self.pivots[...] of its base columns, and _merge_indicator puts each wide
\* result back on the rows that exist, keyed by (date, stock_id)
calculate_all_indicators(panel) ==
    IF ~(BarCols \subseteq panel.cols) THEN Raise("KeyError", panel)
    ELSE
      LET sorted == SortValues(panel.rows, "date", "stock_id")
          dates  == PanelDates(sorted)
          ids    == GroupKeys(Stocks(sorted))
          wide   == Array([k \in 1..Len(ids) |->
                       IndicatorColumns(pivots(sorted, ids[k]))])
          merged(i) ==
              LET k == IndexOf(ids, sorted[i]["stock_id"])
                  t == IndexOf(dates, sorted[i]["date"])
              IN  [c \in panel.cols \cup IndicatorNames |->
                     IF c \in IndicatorNames THEN wide[k][c][t] ELSE sorted[i][c]]
      IN  Return([cols |-> panel.cols \cup IndicatorNames,
                  rows |-> Array([i \in 1..Len(sorted) |-> merged(i)])], panel)

\* Series.diff()
Diff(x) == Array([t \in 1..Len(x) |-> IF t > 1 THEN Sub(x[t], x[t - 1]) ELSE NaN])

\* delta.clip(lower=0)
ClipLower0(x) ==
    Array([t \in 1..Len(x) |-> IF IsNum(x[t]) /\ Lt(x[t], R(0)) THEN R(0) ELSE x[t]])

\* -delta.clip(upper=0)
NegClipUpper0(x) ==
    Array([t \in 1..Len(x) |->
        IF ~IsNum(x[t]) THEN NaN
        ELSE IF Gt(x[t], R(0)) THEN R(0) ELSE Sub(R(0), x[t])])

\* Series.ewm(alpha=alpha, adjust=False).mean() up to position t: the
\* weighted mean and the weight of the past.  A NaN observation leaves the
\* mean as it is and lets the weight of the past decay; the mean starts at
\* the first observation.
RECURSIVE EwmState(_, _, _)
EwmState(x, alpha, t) ==
    IF t = 0 THEN <<NaN, R(1)>>
    ELSE LET prev     == EwmState(x, alpha, t - 1)
             weighted == prev[1]
             old_wt   == Mul(prev[2], Sub(R(1), alpha))
         IN  IF IsNum(weighted)
             THEN IF IsNum(x[t])
                  THEN <<Div(Add(Mul(old_wt, weighted), Mul(alpha, x[t])),
                             Add(old_wt, alpha)), R(1)>>
                  ELSE <<weighted, old_wt>>
             ELSE IF IsNum(x[t]) THEN <<x[t], R(1)>> ELSE <<NaN, R(1)>>

EwmMean(x, alpha) == Array([t \in 1..Len(x) |-> EwmState(x, alpha, t)[1]])

\* calculate_rsi, one stock: rs = avg_gain / avg_loss, rsi = 100 - 100/(1+rs).
\* A zero avg_loss makes rs an infinity (of either sign: the float is -0.0)
\* and 100/(1+rs) a zero, or rs a NaN when avg_gain is zero too.
rsi(close, period) ==
    LET delta    == Diff(close)
        avg_gain == EwmMean(ClipLower0(delta), Norm(1, period))
        avg_loss == EwmMean(NegClipUpper0(delta), Norm(1, period))
    IN  Array([t \in 1..Len(close) |->
          Sub(R(100), Div(R(100), Add(R(1), Div(avg_gain[t], avg_loss[t]))))])

\* TechnicalIndicators(df).calculate_rsi(): the rsi column merged on the
\* sorted copy of the panel
calculate_rsi(panel) ==
    IF ~({"date", "stock_id"} \subseteq panel.cols) \/ "close" \notin panel.cols
    THEN Raise("KeyError", panel)
    ELSE
      LET sorted == SortValues(panel.rows, "date", "stock_id")
          dates  == PanelDates(sorted)
          ids    == GroupKeys(Stocks(sorted))
          wide   == Array([k \in 1..Len(ids) |-> rsi(pivot(sorted, "close", ids[k]), 14)])
          merged(i) ==
              LET k == IndexOf(ids, sorted[i]["stock_id"])
                  t == IndexOf(dates, sorted[i]["date"])
              IN  [c \in panel.cols \cup {"rsi"} |->
                     IF c = "rsi" THEN wide[k][t] ELSE sorted[i][c]]
      IN  Return([cols |-> panel.cols \cup {"rsi"},
                  rows |-> Array([i \in 1..Len(sorted) |-> merged(i)])], panel)

----------------------------------------------------------------------------
(* EventDetector  (src/app/event_detector.py)                              *)
(*                                                                         *)
(* A rule descriptor is a record [name, type, params]; params is a record  *)
(* of the keys the YAML gives.  A threshold is <<"num", v>> for a number   *)
(* and <<"str", s>> for a string.                                          *)

\* params.get(key, default)
Get(params, key, default) ==
    IF key \in DOMAIN params THEN params[key] ELSE default

\* the rows of the rows at positions idx
Group(rows, idx) == Array([k \in 1..Len(idx) |-> rows[idx[k]]])

Col(group, c) == Array([i \in 1..Len(group) |-> group[i][c]])

Ones(rows) == Array([i \in 1..Len(rows) |-> R(1)])

Nulls(rows) == Array([i \in 1..Len(rows) |-> NaN])

\* pd.Series(0, index=self.df.index)
Zeros(rows) == Array([i \in 1..Len(rows) |-> R(0)])

price_breakout_signal_unshifted(group, period, direction) ==
    IF direction = "up"
    THEN LET rolling_max == RollingMax(Col(group, "high"), period)
         IN  Array([i \in 1..Len(group) |->
                      Flag(Gt(group[i]["close"], rolling_max[i]))])
    ELSE LET rolling_min == RollingMin(Col(group, "low"), period)
         IN  Array([i \in 1..Len(group) |->
                      Flag(Lt(group[i]["close"], rolling_min[i]))])

\* _detect_price_breakout, one group
price_breakout_signal(group, period, direction) ==
    IF direction = "up"
    THEN LET rolling_max == RollingMax(Shift(Col(group, "high"), 1), period)
         IN  Array([i \in 1..Len(group) |->
                      Flag(Gt(group[i]["close"], rolling_max[i]))])
    ELSE LET rolling_min == RollingMin(Shift(Col(group, "low"), 1), period)
         IN  Array([i \in 1..Len(group) |->
                      Flag(Lt(group[i]["close"], rolling_min[i]))])

_detect_price_breakout(rows, params) ==
    LET period    == Get(params, "period", 20)
        direction == Get(params, "direction", "up")
        signal(group) == price_breakout_signal(group, period, direction)
    IN  LET g == groupby(rows)
            IN  PutBack(g, Array([k \in 1..Len(g) |->
                                    signal(Group(rows, g[k]))]))

crossover_signal_level(group, fast_col, slow_col, direction) ==
    LET fast == Col(group, fast_col)
        slow == Col(group, slow_col)
    IN  Array([i \in 1..Len(group) |->
          IF direction = "up" THEN Flag(Gt(fast[i], slow[i]))
          ELSE Flag(Lt(fast[i], slow[i]))])

\* _detect_crossover, one group
crossover_signal(group, fast_col, slow_col, direction) ==
    LET fast == Col(group, fast_col)
        slow == Col(group, slow_col)
        shift_fast == Shift(fast, 1)
        shift_slow == Shift(slow, 1)
    IN  Array([i \in 1..Len(group) |->
          IF direction = "up"
          THEN Flag(Le(shift_fast[i], shift_slow[i]) /\ Gt(fast[i], slow[i]))
          ELSE Flag(Ge(shift_fast[i], shift_slow[i]) /\ Lt(fast[i], slow[i]))])

_detect_crossover(cols, rows, params) ==
    LET fast_col  == params["fast_ma"]
        slow_col  == params["slow_ma"]
        direction == Get(params, "direction", "up")
        signal(group) == crossover_signal(group, fast_col, slow_col, direction)
    IN  IF fast_col \notin cols \/ slow_col \notin cols THEN Zeros(rows)
        ELSE LET g == groupby(rows)
            IN  PutBack(g, Array([k \in 1..Len(g) |->
                                    signal(Group(rows, g[k]))]))

threshold_cross_signal_unshifted(cols, group, target_col, thresh_val, direction) ==
    LET tgt == Col(group, target_col)
        is_col == thresh_val[1] = "str" /\ thresh_val[2] \in cols
        ths == IF is_col THEN Col(group, thresh_val[2])
               ELSE Array([i \in 1..Len(group) |-> thresh_val[2]])
        prev_tgt == Shift(tgt, 1)
    IN  Array([i \in 1..Len(group) |->
          IF direction = "up"
          THEN Flag(Le(prev_tgt[i], ths[i]) /\ Gt(tgt[i], ths[i]))
          ELSE Flag(Ge(prev_tgt[i], ths[i]) /\ Lt(tgt[i], ths[i]))])

\* _detect_threshold_cross, one group; the threshold is a column of the
\* panel when it is a string naming one, else float(threshold)
threshold_cross_signal(cols, group, target_col, thresh_val, direction) ==
    LET tgt == Col(group, target_col)
        is_col == thresh_val[1] = "str" /\ thresh_val[2] \in cols
        ths == IF is_col THEN Col(group, thresh_val[2])
               ELSE Array([i \in 1..Len(group) |-> thresh_val[2]])
        prev_tgt == Shift(tgt, 1)
        prev_ths == IF is_col THEN Shift(ths, 1) ELSE ths
    IN  Array([i \in 1..Len(group) |->
          IF direction = "up"
          THEN Flag(Le(prev_tgt[i], prev_ths[i]) /\ Gt(tgt[i], ths[i]))
          ELSE Flag(Ge(prev_tgt[i], prev_ths[i]) /\ Lt(tgt[i], ths[i]))])

_detect_threshold_cross(cols, rows, params) ==
    LET target_col == params["target"]
        threshold_ == params["threshold"]
        direction  == Get(params, "direction", "up")
        signal(group) ==
            threshold_cross_signal(cols, group, target_col, threshold_, direction)
    IN  IF target_col \notin cols THEN Zeros(rows) ELSE LET g == groupby(rows)
            IN  PutBack(g, Array([k \in 1..Len(g) |->
                                    signal(Group(rows, g[k]))]))

\* DataFrame.max(axis=1) of two columns: NaN is skipped
RowMax(a, b) == IF ~IsNum(a) THEN b ELSE IF ~IsNum(b) THEN a
                ELSE IF Gt(a, b) THEN a ELSE b

\* _detect_pattern, one group
pattern_signal(group, pattern_type, params) ==
    LET prev_high == Shift(Col(group, "high"), 1)
        ratio == Get(params, "ratio", R(2))
    IN  Array([i \in 1..Len(group) |->
          LET open_p  == group[i]["open"]
              close_p == group[i]["close"]
              high_p  == group[i]["high"]
              body == AbsR(Sub(close_p, open_p))
              upper_shadow == Sub(high_p, RowMax(open_p, close_p))
          IN  IF pattern_type = "gap_up_strong"
              THEN Flag(Gt(close_p, open_p) /\ Gt(open_p, prev_high[i]))
              ELSE IF pattern_type = "long_upper_shadow"
              THEN Flag(Gt(upper_shadow, Mul(body, ratio)))
              ELSE R(0)])

_detect_pattern(rows, params) ==
    LET pattern_type == params["pattern_type"]
        signal(group) == pattern_signal(group, pattern_type, params)
    IN  LET g == groupby(rows)
            IN  PutBack(g, Array([k \in 1..Len(g) |->
                                    signal(Group(rows, g[k]))]))

\* _detect_volume_event, one group
volume_signal(cols, group, ratio, period) ==
    LET vol == Col(group, "volume")
        ratio_col == "volume_ratio_" \o ToString(period) \o "d"
        avg_vol_ref == Shift(RollingMean(vol, period), 1)
    IN  Array([i \in 1..Len(group) |->
          IF ratio_col \in cols
          THEN Flag(Gt(group[i][ratio_col], ratio))
          ELSE Flag(Gt(vol[i], Mul(avg_vol_ref[i], ratio)))])

_detect_volume_event(cols, rows, params) ==
    LET ratio  == Get(params, "ratio", R(2))
        period == Get(params, "period", 5)
        signal(group) == volume_signal(cols, group, ratio, period)
    IN  LET g == groupby(rows)
            IN  PutBack(g, Array([k \in 1..Len(g) |->
                                    signal(Group(rows, g[k]))]))

\* the rule's handler raises: a params[...] key is missing, a base column the
\* handler indexes is absent, or float(threshold) is given a non-number
HandlerRaises(cols, rule, params) ==
    CASE rule.type = "price_breakout" ->
            \/ "close" \notin cols
            \/ Get(params, "direction", "up") = "up" /\ "high" \notin cols
            \/ Get(params, "direction", "up") # "up" /\ "low" \notin cols
      [] rule.type = "crossover" ->
            ~({"fast_ma", "slow_ma"} \subseteq DOMAIN params)
      [] rule.type = "threshold_cross" ->
            \/ ~({"target", "threshold"} \subseteq DOMAIN params)
            \/ /\ params["target"] \in cols
               /\ params["threshold"][1] = "str"
               /\ params["threshold"][2] \notin cols
      [] rule.type = "pattern" ->
            \/ "pattern_type" \notin DOMAIN params
            \/ ~({"open", "close", "high", "low"} \subseteq cols)
      [] rule.type = "volume" -> "volume" \notin cols
      [] OTHER -> FALSE

EventColumn_else_volume(cols, rows, rule) ==
    LET params == Get(rule, "params", <<>>)
    IN  IF HandlerRaises(cols, rule, params) THEN Zeros(rows)
        ELSE CASE rule.type = "price_breakout"  -> _detect_price_breakout(rows, params)
               [] rule.type = "crossover"       -> _detect_crossover(cols, rows, params)
               [] rule.type = "threshold_cross" -> _detect_threshold_cross(cols, rows, params)
               [] rule.type = "pattern"         -> _detect_pattern(rows, params)
               [] OTHER                         -> _detect_volume_event(cols, rows, params)

\* the body of the loop of detect_all_events for one rule: the column it
\* puts in events_df
EventColumn(cols, rows, rule) ==
    LET params == Get(rule, "params", <<>>)
    IN  IF HandlerRaises(cols, rule, params) THEN Zeros(rows)
        ELSE CASE rule.type = "price_breakout"  -> _detect_price_breakout(rows, params)
               [] rule.type = "crossover"       -> _detect_crossover(cols, rows, params)
               [] rule.type = "threshold_cross" -> _detect_threshold_cross(cols, rows, params)
               [] rule.type = "pattern"         -> _detect_pattern(rows, params)
               [] rule.type = "volume"          -> _detect_volume_event(cols, rows, params)
               [] OTHER                         -> Zeros(rows)

RuleNames(cfg) == {cfg[k].name : k \in DOMAIN cfg}

LoopRaises_no_try(cols, cfg) ==
    \E k \in DOMAIN cfg :
        \/ ~({"name", "type"} \subseteq DOMAIN cfg[k])
        \/ HandlerRaises(cols, cfg[k], Get(cfg[k], "params", <<>>))

\* an exception leaves the loop over config['events']: event_config['name']
\* and event_config['type'] are read before the try block
LoopRaises(cols, cfg) ==
    \E k \in DOMAIN cfg : ~({"name", "type"} \subseteq DOMAIN cfg[k])

\* EventDetector(df).detect_all_events() with config['events'] = cfg: the
\* constructor sorts a copy by (stock_id, date) and resets the index
detect_all_events(panel, cfg) ==
    IF ~({"stock_id", "date"} \subseteq panel.cols) THEN Raise("KeyError", panel)
    ELSE IF LoopRaises(panel.cols, cfg) THEN Raise("KeyError", panel)
    ELSE
      LET sorted == SortValues(panel.rows, "stock_id", "date")
          column == Array([k \in 1..Len(cfg) |->
                             EventColumn(panel.cols, sorted, cfg[k])])
          \* a later rule of the same name overwrites the earlier column
          last(name) == CHOOSE k \in DOMAIN cfg :
                            /\ cfg[k].name = name
                            /\ \A j \in DOMAIN cfg : cfg[j].name = name => j <= k
          events_df(i) ==
              [c \in {"date", "stock_id"} \cup RuleNames(cfg) |->
                  IF c \in {"date", "stock_id"} THEN sorted[i][c]
                  ELSE column[last(c)][i]]
      IN  Return([cols |-> {"date", "stock_id"} \cup RuleNames(cfg),
                  rows |-> Array([i \in 1..Len(sorted) |-> events_df(i)])], panel)

----------------------------------------------------------------------------
(* VolumeIndicators  (src/app/volume_indicators.py)                        *)

AvgName(period) == "avg_volume_" \o ToString(period) \o "d"

RatioName(period) == "volume_ratio_" \o ToString(period) \o "d"

\* Series.round(2): to the nearest hundredth, a tie to the even one
Round2(x) ==
    IF ~IsNum(x) \/ x[2] = 0 THEN x
    ELSE LET q == (100 * x[1]) \div x[2]
             r == 100 * x[1] - q * x[2]
             up == 2 * r > x[2] \/ (2 * r = x[2] /\ q % 2 = 1)
         IN  Norm(IF up THEN q + 1 ELSE q, 100)

\* replace([np.inf, -np.inf], np.nan)
ReplaceInf(x) == IF IsNum(x) /\ x[2] = 0 THEN NaN ELSE x

\* calculate_avg_volume on rows sorted by stock_id and date: the rows with
\* one avg_volume column per period
calculate_avg_volume(cols, rows, periods) ==
    LET g == groupby(rows)
        avg == Array([k \in 1..Len(periods) |->
                  PutBack(g, Array([j \in 1..Len(g) |->
                      RollingMean(Col(Group(rows, g[j]), "volume"), periods[k])]))])
        names == {AvgName(periods[k]) : k \in DOMAIN periods}
        at(c) == CHOOSE k \in DOMAIN periods : AvgName(periods[k]) = c
    IN  Array([i \in 1..Len(rows) |->
          [c \in cols \cup names |->
              IF c \in names THEN avg[at(c)][i] ELSE rows[i][c]]])

\* VolumeIndicators(panel).calculate_volume_ratio(periods)
calculate_volume_ratio(panel, periods) ==
    LET avg_names   == {AvgName(periods[k]) : k \in DOMAIN periods}
        ratio_names == {RatioName(periods[k]) : k \in DOMAIN periods}
        fresh == AvgName(periods[1]) \notin panel.cols
    IN  IF ~({"stock_id", "date", "volume"} \subseteq panel.cols)
        THEN Raise("KeyError", panel)
        ELSE IF ~fresh /\ ~(avg_names \subseteq panel.cols)
        THEN Raise("KeyError", panel)
        ELSE
          LET sorted == SortValues(panel.rows, "stock_id", "date")
              rows == IF fresh
                      THEN calculate_avg_volume(panel.cols, sorted, periods)
                      ELSE sorted
              at(c) == CHOOSE k \in DOMAIN periods : RatioName(periods[k]) = c
              ratio(i, c) ==
                  ReplaceInf(Round2(Div(rows[i]["volume"],
                                        rows[i][AvgName(periods[at(c)])])))
              all == panel.cols \cup avg_names \cup ratio_names
          IN  Return([cols |-> all,
                      rows |-> Array([i \in 1..Len(rows) |->
                                 [c \in all |->
                                     IF c \in ratio_names THEN ratio(i, c)
                                     ELSE rows[i][c]]])], panel)

----------------------------------------------------------------------------
(* Bounds and input panels                                                 *)

\* longest history of one entity in a label panel
MaxBars == 22

\* the bar of stock s on date d before any edit: prices drift down one tick
\* a day, so every bar of an entity has its own open, high and low
BaseBar(s, d) ==
    [stock_id |-> s, date |-> d,
     open   |-> R(1000 * s + 2 - d),
     high   |-> R(1000 * s + 3 - d),
     low    |-> R(1000 * s + 1 - d),
     close  |-> R(1000 * s + 2 - d),
     volume |-> R(1000)]

History(s, n) == [d \in 1..n |-> BaseBar(s, d)]

\* histories of entity 1; entity 2, when present, has OtherBars bars
Lengths == {2, 21, MaxBars}

OtherBars == {0, 2}

\* a high that is exactly 1.05 times, and a low that is exactly 0.95 times,
\* the open of entity 1's second bar
SpikeHighs == {R(1050)}

DipLows == {R(950)}

SpikeBars == {2, 21, 22}

DipBars == {2, 6, 7}

AlterBars == {1, 2, 3}

CutBars == {2, 3, 21}

\* position of the row of stock s on date d, 0 when the panel has none
RowOf(panel, s, d) ==
    IF \E i \in DOMAIN panel.rows :
          panel.rows[i]["stock_id"] = s /\ panel.rows[i]["date"] = d
    THEN CHOOSE i \in DOMAIN panel.rows :
          panel.rows[i]["stock_id"] = s /\ panel.rows[i]["date"] = d
    ELSE 0

SetCell(panel, i, c, v) ==
    [panel EXCEPT !.rows = [panel.rows EXCEPT ![i] = [@ EXCEPT ![c] = v]]]

DropColumn(panel, c) ==
    [cols |-> panel.cols \ {c},
     rows |-> [i \in 1..Len(panel.rows) |->
                 [k \in panel.cols \ {c} |-> panel.rows[i][k]]]]

Reversed(panel) ==
    [panel EXCEPT !.rows = [i \in 1..Len(@) |-> @[Len(@) + 1 - i]]]

ByDate(panel) ==
    [panel EXCEPT !.rows = SortValues(@, "date", "stock_id")]

\* the history of stock s cut off right after date m
Truncated(panel, s, m) ==
    [panel EXCEPT !.rows =
        SelectSeq(@, LAMBDA r : r["stock_id"] # s \/ r["date"] <= m)]

\* the open/high/low/close of stock s on date d replaced by other prices
Altered(panel, s, d) ==
    LET i == RowOf(panel, s, d)
    IN  [panel EXCEPT !.rows = [@ EXCEPT ![i] =
            [@ EXCEPT !["open"] = R(1500), !["high"] = R(1600),
                      !["low"] = R(500), !["close"] = R(1550)]]]

----------------------------------------------------------------------------
(* The label run: a caller builds a panel, derives a second panel from it  *)
(* and calls LabelGenerator(horizon, threshold).generate_labels on both.   *)

Horizons == {10, 20}

Thresholds == {Norm(5, 100)}

Init ==
    /\ \E n \in Lengths, m \in OtherBars :
          df = [cols |-> BarCols, rows |-> History(1, n) \o History(2, m)]
    /\ df2 = NoPanel
    /\ horizon \in Horizons
    /\ threshold \in Thresholds
    /\ config = <<>>
    /\ labels = NotCalled /\ labels2 = NotCalled
    /\ indicators = NotCalled /\ indicators2 = NotCalled
    /\ events = NotCalled /\ events2 = NotCalled
    /\ variant = [kind |-> "none", at |-> 0]
    /\ pc = "build"

Untouched(panel, c) ==
    \A i \in DOMAIN panel.rows :
        panel.rows[i][c] = BaseBar(panel.rows[i]["stock_id"], panel.rows[i]["date"])[c]

\* the caller's data has a spike in the high of one bar of entity 1
SetHigh ==
    /\ pc = "build" /\ Untouched(df, "high")
    /\ \E k \in SpikeBars, v \in SpikeHighs :
          /\ RowOf(df, 1, k) # 0
          /\ df' = SetCell(df, RowOf(df, 1, k), "high", v)
    /\ UNCHANGED <<df2, horizon, threshold, config, labels, labels2,
                   indicators, indicators2, events, events2, variant, pc>>

\* the caller's data has a dip in the low of one bar of entity 1
SetLow ==
    /\ pc = "build" /\ Untouched(df, "low")
    /\ \E k \in DipBars, v \in DipLows :
          /\ RowOf(df, 1, k) # 0
          /\ df' = SetCell(df, RowOf(df, 1, k), "low", v)
    /\ UNCHANGED <<df2, horizon, threshold, config, labels, labels2,
                   indicators, indicators2, events, events2, variant, pc>>

Fork(kind, at, panel) ==
    /\ pc = "build"
    /\ df2' = panel
    /\ variant' = [kind |-> kind, at |-> at]
    /\ pc' = "ready"
    /\ UNCHANGED <<df, horizon, threshold, config, labels, labels2,
                   indicators, indicators2, events, events2>>

SamePanel == Fork("same", 0, df)

ReorderRows == Fork("reversed", 0, Reversed(df)) \/ Fork("bydate", 0, ByDate(df))

AlterBar == \E k \in AlterBars :
                RowOf(df, 1, k) # 0 /\ Fork("altered", k, Altered(df, 1, k))

TruncateHistory == \E m \in CutBars :
                RowOf(df, 1, m + 1) # 0 /\ Fork("truncated", m, Truncated(df, 1, m))

LoseColumn == \E c \in df.cols : Fork(c, 0, DropColumn(df, c))

CallGenerateLabels ==
    /\ pc = "ready"
    /\ LET r == generate_labels(df, horizon, threshold)
       IN  labels' = r /\ df' = r.caller
    /\ pc' = "again"
    /\ UNCHANGED <<df2, horizon, threshold, config, labels2,
                   indicators, indicators2, events, events2, variant>>

CallGenerateLabelsAgain ==
    /\ pc = "again"
    /\ LET r == generate_labels(df2, horizon, threshold)
       IN  labels2' = r /\ df2' = r.caller
    /\ pc' = "done"
    /\ UNCHANGED <<df, horizon, threshold, config, labels,
                   indicators, indicators2, events, events2, variant>>

Next ==
    \/ SetHigh
    \/ SetLow
    \/ SamePanel
    \/ ReorderRows
    \/ AlterBar
    \/ TruncateHistory
    \/ LoseColumn
    \/ CallGenerateLabels
    \/ CallGenerateLabelsAgain

Spec == Init /\ [][Next]_vars

----------------------------------------------------------------------------
(* Properties of the label run                                             *)

LabelValues == {"entry_price", "high_roll_20", "low_roll_5", "target"}

Cell(panel, s, d, c) == panel.rows[RowOf(panel, s, d)][c]

Keys(panel) ==
    {<<panel.rows[i]["stock_id"], panel.rows[i]["date"]>> : i \in DOMAIN panel.rows}

\* the bars of stock s dated after d
BarsAfter(panel, s, d) ==
    {i \in DOMAIN panel.rows :
        panel.rows[i]["stock_id"] = s /\ panel.rows[i]["date"] > d}

\* the first h bars of stock s after date d
Following(panel, s, d, h) ==
    {i \in BarsAfter(panel, s, d) :
        Cardinality({j \in BarsAfter(panel, s, d) :
                        panel.rows[j]["date"] < panel.rows[i]["date"]}) < h}

\* the open of the next chronological bar of stock s after date d
NextOpen(panel, s, d) ==
    IF BarsAfter(panel, s, d) = {} THEN NaN
    ELSE LET i == CHOOSE i \in Following(panel, s, d, 1) : TRUE
         IN  panel.rows[i]["open"]

HighestOf(panel, I) ==
    LET m == CHOOSE m \in I : \A j \in I :
                 panel.rows[j]["high"][1] * panel.rows[m]["high"][2]
                    <= panel.rows[m]["high"][1] * panel.rows[j]["high"][2]
    IN  panel.rows[m]["high"]

BothLabelled == pc = "done" /\ labels.raised = "" /\ labels2.raised = ""

SameLabel(s, d) ==
    \A c \in LabelValues : Cell(labels.out, s, d, c) = Cell(labels2.out, s, d, c)

\* C1: the entry price, forward max high, forward min low and target of a
\* signal bar D do not change when the prices of a bar of the same entity at
\* or before D change.
C1_LabelIgnoresBarsUpToSignal ==
    (BothLabelled /\ variant.kind = "altered") =>
        \A k \in Keys(df) : (k[1] = 1 /\ k[2] >= variant.at) => SameLabel(k[1], k[2])

C1_Witness ==
    /\ BothLabelled /\ variant.kind = "altered" /\ df2 # df
    /\ \E k \in Keys(df) :
          /\ k[1] = 1 /\ k[2] >= variant.at
          /\ Cell(labels.out, k[1], k[2], "target") = R(1)

\* C2 as claimed: the label of D on the history cut off right after bar D+1
\* equals the label of D on the full history.
C2_SameLabelCutAfterEntryBar ==
    (BothLabelled /\ variant.kind = "truncated") =>
        SameLabel(1, variant.at - 1)

\* C2 as amended: the label of D on the history cut off right after bar D+20
\* equals the label of D on the full history.
C2_SameLabelCutAfterWindow ==
    (BothLabelled /\ variant.kind = "truncated") =>
        \A k \in Keys(df2) : (k[1] = 1 /\ k[2] + 20 <= variant.at) => SameLabel(1, k[2])

C2_Witness ==
    /\ BothLabelled /\ variant.kind = "truncated"
    /\ Len(df2.rows) < Len(df.rows)
    /\ \E k \in Keys(df2) :
          /\ k[1] = 1 /\ k[2] + 20 <= variant.at
          /\ Cell(labels.out, 1, k[2], "target") = R(1)

\* C3: a row whose forward window is incomplete (fewer than 20 bars of the
\* entity after it) has a null target; target is 0 or 1 only on complete rows.
C3_IncompleteWindowHasNullTarget ==
    (pc = "done" /\ labels.raised = "") =>
        \A k \in Keys(df) :
            Cardinality(BarsAfter(df, k[1], k[2])) < 20
                <=> Cell(labels.out, k[1], k[2], "target") = NaN

C5_EntryIsNextOpen ==
    (pc = "done" /\ labels2.raised = "") =>
        /\ Keys(labels2.out) = Keys(df2)
        /\ \A k \in Keys(df2) :
              Cell(labels2.out, k[1], k[2], "entry_price") = NextOpen(df2, k[1], k[2])

C5_Witness ==
    /\ pc = "done" /\ labels2.raised = ""
    /\ variant.kind \in {"reversed", "bydate"}
    /\ Stocks(df2.rows) = {1, 2}
    /\ \E k \in Keys(df2) :
          /\ k[1] = 1 /\ BarsAfter(df2, 1, k[2]) = {}
          /\ Cell(labels2.out, 1, k[2], "entry_price") = NaN
    /\ \E k \in Keys(df2) : IsNum(Cell(labels2.out, 1, k[2], "entry_price"))

\* C6: the forward max high of signal bar D is the maximum high over exactly
\* the bars D+1 .. D+horizon of the entity.
C6_ProfitWindowIsHorizon ==
    (pc = "done" /\ labels.raised = "") =>
        \A k \in Keys(df) :
            Cell(labels.out, k[1], k[2], "high_roll_20") =
                IF Cardinality(BarsAfter(df, k[1], k[2])) < horizon THEN NaN
                ELSE HighestOf(df, Following(df, k[1], k[2], horizon))

\* C7: when one of stock_id, date, open, close is missing, generate_labels
\* raises, returns no panel and leaves the caller's panel as it was.
C7_MissingMandatoryColumnRaises ==
    [][(pc = "again" /\ ~({"stock_id", "date", "open", "close"} \subseteq df2.cols)) =>
          /\ labels2'.raised = "ValueError"
          /\ labels2'.out = NoPanel
          /\ df2' = df2]_vars

C7_Witness ==
    /\ pc = "done" /\ variant.kind \in {"stock_id", "date", "open", "close"}
    /\ labels2.raised = "ValueError" /\ labels.raised = ""

\* C8: a panel that has stock_id, date, open and close is labelled without
\* raising, whatever other columns are absent.
C8_OnlyMissingMandatoryColumnFails ==
    (pc = "done" /\ {"stock_id", "date", "open", "close"} \subseteq df2.cols) =>
        labels2.raised = ""

----------------------------------------------------------------------------
(* The indicator run and the event run: the panel holds entity 2 and,      *)
(* optionally, entity 1 (sorted before it); the second panel is the first  *)
(* one reordered, without a column, with entity 1 altered, or with entity  *)
(* 2 alone.                                                                *)

\* most dates of a panel in the indicator run / bars in the event run
MaxDates == 7

MaxEventBars == 6

IndLengths == {6, MaxDates}

EventLengths == {3, 5, MaxEventBars}

\* the date on which entity 2 has no bar (0: none)
Gaps == {0, 5}

JumpBars == {1, 3, 6}

SlumpBars == {2, 4}

EventCols == BarCols \cup {"ma5", "ma20", "volume_ratio_5d"}

\* a bar of the enriched panel handed to the event detector
EventBar(s, d) ==
    [c \in EventCols |->
        CASE c = "ma5"  -> R(1000 * s + 2 - d)
          [] c = "ma20" -> R(1000 * s - 1)
          [] c = "volume_ratio_5d" -> R(1)
          [] OTHER -> BaseBar(s, d)[c]]

EventHistory(s, n) == [d \in 1..n |-> EventBar(s, d)]

\* a strong up day, and a down day, on the bar of stock s at position i
Jumped(panel, s, i) ==
    [panel EXCEPT !.rows = [@ EXCEPT ![i] =
        [c \in panel.cols |->
            CASE c = "open"   -> R(1000 * s + 10)
              [] c = "close"  -> R(1000 * s + 20)
              [] c = "high"   -> R(1000 * s + 25)
              [] c = "volume" -> R(5000)
              [] c = "ma5"    -> R(1000 * s + 20)
              [] c = "volume_ratio_5d" -> R(5)
              [] OTHER -> @[c]]]]

Slumped(panel, s, i) ==
    [panel EXCEPT !.rows = [@ EXCEPT ![i] =
        [c \in panel.cols |->
            CASE c = "open"   -> R(1000 * s - 10)
              [] c = "close"  -> R(1000 * s - 20)
              [] c = "low"    -> R(1000 * s - 25)
              [] c = "ma5"    -> R(1000 * s - 20)
              [] OTHER -> @[c]]]]

Alone(panel, s) ==
    [panel EXCEPT !.rows = SelectSeq(@, LAMBDA r : r["stock_id"] = s)]

NothingCalled ==
    /\ labels = NotCalled /\ labels2 = NotCalled
    /\ indicators = NotCalled /\ indicators2 = NotCalled
    /\ events = NotCalled /\ events2 = NotCalled
    /\ variant = [kind |-> "none", at |-> 0]
    /\ df2 = NoPanel
    /\ pc = "build"

InitIndicators ==
    /\ \E n \in IndLengths, g \in Gaps : \E m \in {0, n} :
          df = [cols |-> BarCols,
                rows |-> History(1, m)
                         \o SelectSeq(History(2, n), LAMBDA r : r["date"] # g)]
    /\ horizon = 10 /\ threshold = Norm(5, 100)
    /\ config = <<>>
    /\ NothingCalled

JumpBar ==
    /\ pc = "build" /\ Untouched(df, "high")
    /\ \E k \in JumpBars :
          /\ RowOf(df, 2, k) # 0
          /\ df.rows[RowOf(df, 2, k)]["close"] = BaseBar(2, k)["close"]
          /\ df' = Jumped(df, 2, RowOf(df, 2, k))
    /\ UNCHANGED <<df2, horizon, threshold, config, labels, labels2,
                   indicators, indicators2, events, events2, variant, pc>>

SlumpBar ==
    /\ pc = "build" /\ Untouched(df, "low")
    /\ \E k \in SlumpBars :
          /\ RowOf(df, 2, k) # 0
          /\ df.rows[RowOf(df, 2, k)]["close"] = BaseBar(2, k)["close"]
          /\ df' = Slumped(df, 2, RowOf(df, 2, k))
    /\ UNCHANGED <<df2, horizon, threshold, config, labels, labels2,
                   indicators, indicators2, events, events2, variant, pc>>

DropOthers == Stocks(df.rows) = {1, 2} /\ Fork("alone", 2, Alone(df, 2))

CallCalculateAllIndicators ==
    /\ pc = "ready"
    /\ LET r == calculate_all_indicators(df)
       IN  indicators' = r /\ df' = r.caller
    /\ pc' = "again"
    /\ UNCHANGED <<df2, horizon, threshold, config, labels, labels2,
                   indicators2, events, events2, variant>>

CallCalculateAllIndicatorsAgain ==
    /\ pc = "again"
    /\ LET r == calculate_all_indicators(df2)
       IN  indicators2' = r /\ df2' = r.caller
    /\ pc' = "done"
    /\ UNCHANGED <<df, horizon, threshold, config, labels, labels2,
                   indicators, events, events2, variant>>

\* the panel with indicator columns of an earlier run whose values are out
\* of date
WithStale(panel) ==
    [cols |-> panel.cols \cup IndicatorNames,
     rows |-> [i \in DOMAIN panel.rows |->
                 [c \in panel.cols \cup IndicatorNames |->
                     IF c \in panel.cols THEN panel.rows[i][c] ELSE R(7)]]]

\* features.parquet already carries indicator columns
CarryStale == Fork("stale", 0, WithStale(df))

\* the second run gets the panel the first run returned
FeedOutput ==
    /\ pc = "again" /\ variant.kind = "same" /\ indicators.raised = ""
    /\ df2' = indicators.out
    /\ variant' = [kind |-> "output", at |-> 0]
    /\ UNCHANGED <<df, horizon, threshold, config, labels, labels2,
                   indicators, indicators2, events, events2, pc>>

NextIndicators ==
    \/ JumpBar
    \/ SlumpBar
    \/ SamePanel
    \/ ReorderRows
    \/ AlterBar
    \/ DropOthers
    \/ LoseColumn
    \/ CarryStale
    \/ FeedOutput
    \/ CallCalculateAllIndicators
    \/ CallCalculateAllIndicatorsAgain

SpecIndicators == InitIndicators /\ [][NextIndicators]_vars

\* C9: every indicator column on the rows of an entity is the same whether
\* or not rows of other entities are in the panel.
C9_IndicatorsIgnoreOtherEntities ==
    (pc = "done" /\ variant.kind = "alone") =>
        \A k \in Keys(df2) : \A c \in IndicatorNames :
            Cell(indicators.out, k[1], k[2], c) = Cell(indicators2.out, k[1], k[2], c)

\* the columns of the label panel that look forward from the signal bar
ForwardCols == {"entry_price", "future_max_20d", "high_roll_20", "low_roll_5",
                "exit_price", "future_return", "return_5d"}

\* C30: none of the forward-looking columns of signal bar D changes when
\* the open, high, low and close of bar D itself change.
C30_ForwardColumnsIgnoreSignalBar ==
    (BothLabelled /\ variant.kind = "altered") =>
        \A c \in ForwardCols :
            Cell(labels.out, 1, variant.at, c) = Cell(labels2.out, 1, variant.at, c)

----------------------------------------------------------------------------
(* The event run                                                           *)

\* config/signals.yaml: one or two rules of every type
StandardRules ==
    << [name |-> "break_up", type |-> "price_breakout",
        params |-> [period |-> 2, direction |-> "up"]],
       [name |-> "break_down", type |-> "price_breakout",
        params |-> [period |-> 2, direction |-> "down"]],
       [name |-> "golden_cross", type |-> "crossover",
        params |-> [fast_ma |-> "ma5", slow_ma |-> "ma20", direction |-> "up"]],
       [name |-> "death_cross", type |-> "crossover",
        params |-> [fast_ma |-> "ma5", slow_ma |-> "ma20", direction |-> "down"]],
       [name |-> "close_above_ma20", type |-> "threshold_cross",
        params |-> [target |-> "close", threshold |-> <<"str", "ma20">>,
                    direction |-> "up"]],
       [name |-> "close_below_1990", type |-> "threshold_cross",
        params |-> [target |-> "close", threshold |-> <<"num", R(1990)>>,
                    direction |-> "down"]],
       [name |-> "gap_up", type |-> "pattern",
        params |-> [pattern_type |-> "gap_up_strong"]],
       [name |-> "upper_shadow", type |-> "pattern",
        params |-> [pattern_type |-> "long_upper_shadow", ratio |-> R(2)]],
       [name |-> "volume_2d", type |-> "volume",
        params |-> [ratio |-> R(2), period |-> 2]],
       [name |-> "volume_5d", type |-> "volume", params |-> [ratio |-> R(2)]] >>

Configs == {StandardRules}

InitEvents ==
    /\ \E n \in EventLengths, m \in {0, 3} :
          df = [cols |-> EventCols,
                rows |-> EventHistory(1, m) \o EventHistory(2, n)]
    /\ horizon = 10 /\ threshold = Norm(5, 100)
    /\ config \in Configs
    /\ NothingCalled

CallDetectAllEvents ==
    /\ pc = "ready"
    /\ LET r == detect_all_events(df, config)
       IN  events' = r /\ df' = r.caller
    /\ pc' = "again"
    /\ UNCHANGED <<df2, horizon, threshold, config, labels, labels2,
                   indicators, indicators2, events2, variant>>

\* config/signals.yaml without its rule number k
Without(cfg, k) == SubSeq(cfg, 1, k - 1) \o SubSeq(cfg, k + 1, Len(cfg))

\* the configuration of the second detector
Config2 ==
    IF variant.kind = "without_rule" THEN Without(config, variant.at) ELSE config

CallDetectAllEventsAgain ==
    /\ pc = "again"
    /\ LET r == detect_all_events(df2, Config2)
       IN  events2' = r /\ df2' = r.caller
    /\ pc' = "done"
    /\ UNCHANGED <<df, horizon, threshold, config, labels, labels2,
                   indicators, indicators2, events, variant>>

NextEvents ==
    \/ JumpBar
    \/ SlumpBar
    \/ SamePanel
    \/ ReorderRows
    \/ AlterBar
    \/ DropOthers
    \/ LoseColumn
    \/ CallDetectAllEvents
    \/ CallDetectAllEventsAgain

SpecEvents == InitEvents /\ [][NextEvents]_vars

Fired(res, s, name) ==
    \E i \in DOMAIN res.out.rows :
        res.out.rows[i]["stock_id"] = s /\ res.out.rows[i][name] = R(1)

\* C10: for every rule type the signal on an entity's rows is the same when
\* the rows of the entity sorted before it are removed or altered.
C10_EventsIgnoreOtherEntities ==
    (/\ pc = "done" /\ variant.kind \in {"alone", "altered"}
     /\ events.raised = "" /\ events2.raised = "") =>
        \A k \in Keys(df2) : \A name \in RuleNames(config) :
            k[1] = 2 =>
               Cell(events.out, 2, k[2], name) = Cell(events2.out, 2, k[2], name)

\* entity 1 is there in the first call only, and a rule of every type fires
\* on entity 2
C10_Witness ==
    /\ pc = "done" /\ variant.kind = "alone"
    /\ events.raised = "" /\ events2.raised = ""
    /\ Stocks(df.rows) = {1, 2} /\ Stocks(df2.rows) = {2}
    /\ \A name \in {"break_up", "golden_cross", "close_above_ma20", "gap_up",
                     "upper_shadow", "volume_2d", "volume_5d"} :
          Fired(events, 2, name)

----------------------------------------------------------------------------
(* The signal run: one detector with the standard rules on a panel whose   *)
(* second entity has, besides an up day and a down day, a fast average     *)
(* that stays above the slow one from some bar on, or a bar with a long    *)
(* upper wick.                                                             *)

\* the bar from which ma5 stays above ma20
LiftBars == {2, 4, 5}

WickBars == {2, 6}

Lifted(panel, s, k) ==
    [panel EXCEPT !.rows =
        [i \in DOMAIN @ |->
            IF @[i]["stock_id"] = s /\ @[i]["date"] >= k
            THEN [@[i] EXCEPT !["ma5"] = R(1000 * s + 5)]
            ELSE @[i]]]

LiftFast ==
    /\ pc = "build" /\ "ma5" \in df.cols
    /\ \A i \in DOMAIN df.rows : df.rows[i]["ma5"] # R(2005)
    /\ \E k \in LiftBars :
          /\ RowOf(df, 2, k) # 0
          /\ df' = Lifted(df, 2, k)
    /\ UNCHANGED <<df2, horizon, threshold, config, labels, labels2,
                   indicators, indicators2, events, events2, variant, pc>>

\* the high of one bar is far above its close
WickBar ==
    /\ pc = "build" /\ "high" \in df.cols
    /\ \A i \in DOMAIN df.rows : df.rows[i]["high"] # R(2050)
    /\ \E k \in WickBars :
          /\ RowOf(df, 2, k) # 0
          /\ df.rows[RowOf(df, 2, k)]["high"] = BaseBar(2, k)["high"]
          /\ df' = SetCell(df, RowOf(df, 2, k), "high", R(2050))
    /\ UNCHANGED <<df2, horizon, threshold, config, labels, labels2,
                   indicators, indicators2, events, events2, variant, pc>>

\* the bar on which ma5 comes down to ma20 without going below it
TouchBars == {5}

TouchSlow ==
    /\ pc = "build" /\ {"ma5", "ma20"} \subseteq df.cols
    /\ \E k \in TouchBars :
          /\ RowOf(df, 2, k) # 0
          /\ Gt(df.rows[RowOf(df, 2, k)]["ma5"], df.rows[RowOf(df, 2, k)]["ma20"])
          /\ df' = SetCell(df, RowOf(df, 2, k), "ma5", df.rows[RowOf(df, 2, k)]["ma20"])
    /\ UNCHANGED <<df2, horizon, threshold, config, labels, labels2,
                   indicators, indicators2, events, events2, variant, pc>>

\* rules that state one crossing twice, as a crossover and as a
\* threshold_cross on a column, and crossings of a number
CrossingRules ==
    << [name |-> "golden_cross", type |-> "crossover",
        params |-> [fast_ma |-> "ma5", slow_ma |-> "ma20", direction |-> "up"]],
       [name |-> "ma5_over_ma20", type |-> "threshold_cross",
        params |-> [target |-> "ma5", threshold |-> <<"str", "ma20">>,
                    direction |-> "up"]],
       [name |-> "death_cross", type |-> "crossover",
        params |-> [fast_ma |-> "ma5", slow_ma |-> "ma20", direction |-> "down"]],
       [name |-> "ma5_under_ma20", type |-> "threshold_cross",
        params |-> [target |-> "ma5", threshold |-> <<"str", "ma20">>,
                    direction |-> "down"]],
       [name |-> "cross_ma20_ma5", type |-> "crossover",
        params |-> [fast_ma |-> "ma20", slow_ma |-> "ma5", direction |-> "up"]],
       [name |-> "ma20_over_ma5", type |-> "threshold_cross",
        params |-> [target |-> "ma20", threshold |-> <<"str", "ma5">>,
                    direction |-> "up"]],
       [name |-> "ma5_over_2000", type |-> "threshold_cross",
        params |-> [target |-> "ma5", threshold |-> <<"num", R(2000)>>,
                    direction |-> "up"]],
       [name |-> "ma5_under_2000", type |-> "threshold_cross",
        params |-> [target |-> "ma5", threshold |-> <<"num", R(2000)>>,
                    direction |-> "down"]] >>

SignalConfigs == Configs \cup {CrossingRules}

InitSignals ==
    /\ \E n \in EventLengths, m \in {0, 3} :
          df = [cols |-> EventCols,
                rows |-> EventHistory(1, m) \o EventHistory(2, n)]
    /\ horizon = 10 /\ threshold = Norm(5, 100)
    /\ config \in SignalConfigs
    /\ NothingCalled

NextSignals ==
    \/ JumpBar
    \/ SlumpBar
    \/ LiftFast
    \/ WickBar
    \/ TouchSlow
    \/ SamePanel
    \/ CallDetectAllEvents

SpecSignals == InitSignals /\ [][NextSignals]_vars

----------------------------------------------------------------------------
(* The rule run: detect_all_events under configurations with unusable      *)
(* rules.  The panel is the enriched panel of the event run, possibly      *)
(* without one of its columns; the second detector gets the same panel     *)
(* (or its rows in another order) and the same configuration, or the       *)
(* configuration without one of its rules.                                 *)

break_up ==
    [name |-> "break_up", type |-> "price_breakout",
     params |-> [period |-> 2, direction |-> "up"]]

golden_cross ==
    [name |-> "golden_cross", type |-> "crossover",
     params |-> [fast_ma |-> "ma5", slow_ma |-> "ma20", direction |-> "up"]]

close_above_ma20 ==
    [name |-> "close_above_ma20", type |-> "threshold_cross",
     params |-> [target |-> "close", threshold |-> <<"str", "ma20">>,
                 direction |-> "up"]]

gap_up == [name |-> "gap_up", type |-> "pattern",
           params |-> [pattern_type |-> "gap_up_strong"]]

volume_2d == [name |-> "volume_2d", type |-> "volume",
              params |-> [ratio |-> R(2), period |-> 2]]

\* a configuration, and the column the panel lacks ("": none)
RuleSetups ==
    { \* every rule usable
      [rules |-> <<break_up, golden_cross, close_above_ma20, gap_up, volume_2d>>,
       lost |-> ""],
      \* no rule at all
      [rules |-> <<>>, lost |-> ""],
      \* a crossover without its slow_ma param
      [rules |-> <<break_up,
                   [name |-> "bad_cross", type |-> "crossover",
                    params |-> [fast_ma |-> "ma5"]],
                   volume_2d>>,
       lost |-> ""],
      \* a type the detector does not know
      [rules |-> <<golden_cross,
                   [name |-> "mystery", type |-> "momentum",
                    params |-> [period |-> 2]],
                   volume_2d>>,
       lost |-> ""],
      \* the base column of the volume rule is missing
      [rules |-> <<break_up, volume_2d, gap_up>>, lost |-> "volume"],
      \* columns the rules refer to are not in the panel
      [rules |-> <<break_up,
                   [name |-> "cross_ma60", type |-> "crossover",
                    params |-> [fast_ma |-> "ma5", slow_ma |-> "ma60"]],
                   [name |-> "cross_ma10", type |-> "crossover",
                    params |-> [fast_ma |-> "ma10", slow_ma |-> "ma20",
                                direction |-> "down"]],
                   [name |-> "rsi_over_70", type |-> "threshold_cross",
                    params |-> [target |-> "rsi", threshold |-> <<"num", R(70)>>]],
                   volume_2d>>,
       lost |-> ""],
      \* ma20 is missing: the crossover refers to an absent column and the
      \* threshold 'ma20' is a string that is neither a column nor a number
      [rules |-> <<break_up, golden_cross, close_above_ma20, volume_2d>>,
       lost |-> "ma20"],
      \* rules without params
      [rules |-> <<[name |-> "break_default", type |-> "price_breakout"],
                   [name |-> "cross_default", type |-> "crossover"],
                   [name |-> "volume_default", type |-> "volume"],
                   break_up>>,
       lost |-> ""],
      \* a rule without name
      [rules |-> <<break_up,
                   [type |-> "volume", params |-> [ratio |-> R(2), period |-> 2]],
                   gap_up>>,
       lost |-> ""],
      \* a rule without type
      [rules |-> <<break_up,
                   [name |-> "untyped", params |-> [ratio |-> R(2), period |-> 2]],
                   gap_up>>,
       lost |-> ""] }

RuleLengths == {3, MaxEventBars}

InitRules ==
    /\ \E n \in RuleLengths, m \in {0, 3}, setup \in RuleSetups :
          /\ df = LET full == [cols |-> EventCols,
                               rows |-> EventHistory(1, m) \o EventHistory(2, n)]
                  IN  IF setup.lost = "" THEN full
                      ELSE DropColumn(full, setup.lost)
          /\ config = setup.rules
    /\ horizon = 10 /\ threshold = Norm(5, 100)
    /\ NothingCalled

\* the second detector is configured without rule k
DropRule == \E k \in DOMAIN config : Fork("without_rule", k, df)

NextRules ==
    \/ JumpBar
    \/ SamePanel
    \/ ReorderRows
    \/ DropRule
    \/ CallDetectAllEvents
    \/ CallDetectAllEventsAgain

SpecRules == InitRules /\ [][NextRules]_vars

----------------------------------------------------------------------------
(* Properties of the rule run                                              *)

\* every descriptor of the configuration has a name and a type
WellFormed(cfg) == \A k \in DOMAIN cfg : {"name", "type"} \subseteq DOMAIN cfg[k]

\* the rule cannot be computed on a panel with the columns cols: a required
\* param is missing, the base column is missing, or the threshold is a
\* string that is neither a column nor a number
Unusable(cols, rule) ==
    LET given == IF "params" \in DOMAIN rule THEN DOMAIN rule.params ELSE {}
    IN  \/ rule.type = "crossover" /\ ~({"fast_ma", "slow_ma"} \subseteq given)
        \/ rule.type = "volume" /\ "volume" \notin cols
        \/ /\ rule.type = "threshold_cross"
           /\ {"target", "threshold"} \subseteq given
           /\ rule.params["target"] \in cols
           /\ rule.params["threshold"][1] = "str"
           /\ rule.params["threshold"][2] \notin cols

AllZero(res, name) == \A i \in DOMAIN res.out.rows : res.out.rows[i][name] = R(0)

SameColumn(res, res2, name) ==
    /\ DOMAIN res.out.rows = DOMAIN res2.out.rows
    /\ \A i \in DOMAIN res.out.rows : res.out.rows[i][name] = res2.out.rows[i][name]

\* C11: when a rule cannot be computed, its column is zero on every row and
\* every other rule of the list has the values it has when the detector is
\* configured without that rule.
C11_FailingRuleIsIsolated ==
    (/\ pc = "done" /\ variant.kind = "without_rule"
     /\ WellFormed(config)
     /\ Unusable(df.cols, config[variant.at])) =>
        /\ events.raised = "" /\ events2.raised = ""
        /\ AllZero(events, config[variant.at].name)
        /\ RuleNames(Config2) = RuleNames(config) \ {config[variant.at].name}
        /\ \A name \in RuleNames(Config2) : SameColumn(events, events2, name)

\* a crossover without slow_ma stands between two rules that fire
C11_Witness ==
    /\ pc = "done" /\ variant.kind = "without_rule" /\ WellFormed(config)
    /\ config[variant.at].name = "bad_cross"
    /\ events.raised = "" /\ AllZero(events, "bad_cross")
    /\ Fired(events, 2, "break_up") /\ Fired(events, 2, "volume_2d")
    /\ Fired(events2, 2, "break_up") /\ Fired(events2, 2, "volume_2d")

\* the types detect_all_events dispatches on
KnownTypes == {"price_breakout", "crossover", "threshold_cross", "pattern", "volume"}

\* C12: a rule of a type the detector does not know has a column of its own
\* name that is 0 on every row, and the other rules of the list are computed
\* as they are without it.
C12_UnknownTypeIsAllZero ==
    (events.raised # "not called" /\ WellFormed(config)) =>
        \A k \in DOMAIN config :
            config[k].type \notin KnownTypes =>
                /\ events.raised = ""
                /\ RuleNames(config) \subseteq events.out.cols
                /\ AllZero(events, config[k].name)
                /\ (pc = "done" /\ variant.kind = "without_rule" /\ variant.at = k) =>
                      \A name \in RuleNames(Config2) : SameColumn(events, events2, name)

\* the rule of type momentum stands between two rules that fire
C12_Witness ==
    /\ pc = "done" /\ variant.kind = "without_rule" /\ WellFormed(config)
    /\ config[variant.at].type = "momentum"
    /\ events.raised = "" /\ AllZero(events, "mystery")
    /\ Fired(events, 2, "golden_cross") /\ Fired(events, 2, "volume_2d")
    /\ Fired(events2, 2, "golden_cross") /\ Fired(events2, 2, "volume_2d")

\* C13: whatever the rule descriptors are, detect_all_events returns an event
\* panel, and every descriptor that has a name and a type has its column.
C13_NeverRaisesForRuleProblems ==
    (events.raised # "not called" /\ {"stock_id", "date"} \subseteq df.cols) =>
        /\ events.raised = ""
        /\ \A k \in DOMAIN config :
              {"name", "type"} \subseteq DOMAIN config[k] =>
                  config[k].name \in events.out.cols

\* the event panel has the key columns and one column per rule name of cfg,
\* and every cell of a rule column is 0 or 1
ZeroOneColumns(res, cfg) ==
    /\ res.out.cols = {"date", "stock_id"} \cup RuleNames(cfg)
    /\ \A i \in DOMAIN res.out.rows :
          /\ DOMAIN res.out.rows[i] = res.out.cols
          /\ \A name \in RuleNames(cfg) : res.out.rows[i][name] \in {R(0), R(1)}

\* C14: a returned event panel has exactly one column per configured rule
\* name, and every cell of a rule column is 0 or 1, never null.
C14_EventColumnsAreZeroOne ==
    /\ events.raised = "" => ZeroOneColumns(events, config)
    /\ events2.raised = "" => ZeroOneColumns(events2, Config2)

\* rules without params: the crossover fails, the volume rule and a later
\* breakout fire after their warm-up bars
C14_Witness ==
    /\ events.raised = ""
    /\ RuleNames(config) = {"break_default", "cross_default", "volume_default", "break_up"}
    /\ AllZero(events, "cross_default") /\ AllZero(events, "break_default")
    /\ Fired(events, 2, "volume_default") /\ Fired(events, 2, "break_up")
    /\ \E i \in DOMAIN events.out.rows : events.out.rows[i]["break_up"] = R(0)

\* row i of the event panel has the key of row i of the input panel
SameKeysInOrder(res, panel) ==
    /\ Len(res.out.rows) = Len(panel.rows)
    /\ \A i \in DOMAIN panel.rows :
          /\ res.out.rows[i]["date"] = panel.rows[i]["date"]
          /\ res.out.rows[i]["stock_id"] = panel.rows[i]["stock_id"]

\* C15: the event panel has one row per input row, with the same keys, in
\* the order of the rows of the input panel.
C15_EventRowsInInputOrder ==
    /\ events.raised = "" => SameKeysInOrder(events, df)
    /\ events2.raised = "" => SameKeysInOrder(events2, df2)

\* the rule names a column that the panel does not have: the fast or slow
\* column of a crossover, the target of a threshold_cross
RefersToAbsent(cols, rule) ==
    LET given == IF "params" \in DOMAIN rule THEN DOMAIN rule.params ELSE {}
    IN  \/ /\ rule.type = "crossover"
           /\ {"fast_ma", "slow_ma"} \subseteq given
           /\ rule.params["fast_ma"] \notin cols \/ rule.params["slow_ma"] \notin cols
        \/ /\ rule.type = "threshold_cross"
           /\ {"target", "threshold"} \subseteq given
           /\ rule.params["target"] \notin cols

\* C17: a crossover whose fast or slow column, or a threshold_cross whose
\* target column, is not in the panel has a column that is 0 on every row;
\* the call returns and the other rules are computed as without it.
C17_AbsentColumnIsAllZero ==
    (events.raised # "not called" /\ WellFormed(config)) =>
        \A k \in DOMAIN config :
            RefersToAbsent(df.cols, config[k]) =>
                /\ events.raised = ""
                /\ AllZero(events, config[k].name)
                /\ RuleNames(config) \ {config[k].name} \subseteq events.out.cols
                /\ (pc = "done" /\ variant.kind = "without_rule" /\ variant.at = k) =>
                      /\ events2.raised = ""
                      /\ \A name \in RuleNames(Config2) :
                            SameColumn(events, events2, name)

\* crossovers without their slow and without their fast column and a
\* threshold_cross without its target stand between two rules that fire
C17_Witness ==
    /\ pc = "done" /\ variant.kind = "without_rule" /\ WellFormed(config)
    /\ config[variant.at].name = "rsi_over_70"
    /\ {"ma60", "ma10", "rsi"} \cap df.cols = {}
    /\ events.raised = ""
    /\ AllZero(events, "cross_ma60") /\ AllZero(events, "cross_ma10")
    /\ AllZero(events, "rsi_over_70")
    /\ Fired(events, 2, "break_up") /\ Fired(events, 2, "volume_2d")
    /\ Fired(events2, 2, "break_up") /\ Fired(events2, 2, "volume_2d")

----------------------------------------------------------------------------
(* The volume run: the raw panel goes through calculate_volume_ratio, the  *)
(* first detector gets the panel with the ratio columns and the second one *)
(* the raw panel.                                                          *)

\* calculate_all_volume_indicators: periods=[5, 10, 20]
VolumePeriods == <<5, 10, 20>>

VolumeRules ==
    << [name |-> "volume_5d", type |-> "volume", params |-> [ratio |-> R(2)]],
       [name |-> "volume_5d_mild", type |-> "volume",
        params |-> [ratio |-> Norm(3, 2), period |-> 5]],
       [name |-> "volume_2d", type |-> "volume",
        params |-> [ratio |-> R(2), period |-> 2]] >>

VolumeLengths == {5, MaxEventBars}

SurgeBars == {1, 3, 5, 6}

Surges == {R(1400), R(2200), R(5000)}

InitVolume ==
    /\ \E n \in VolumeLengths, m \in {0, 3} :
          df = [cols |-> BarCols, rows |-> History(1, m) \o History(2, n)]
    /\ horizon = 10 /\ threshold = Norm(5, 100)
    /\ config = VolumeRules
    /\ NothingCalled

\* one bar of entity 2 trades more than the others
SurgeBar ==
    /\ pc = "build"
    /\ \A i \in DOMAIN df.rows : df.rows[i]["volume"] = R(1000)
    /\ \E k \in SurgeBars, v \in Surges :
          /\ RowOf(df, 2, k) # 0
          /\ df' = SetCell(df, RowOf(df, 2, k), "volume", v)
    /\ UNCHANGED <<df2, horizon, threshold, config, labels, labels2,
                   indicators, indicators2, events, events2, variant, pc>>

\* df = vol_ind.calculate_all_volume_indicators(), as far as the ratio
\* columns go; the raw panel is kept for the second detector
CallCalculateVolumeRatio ==
    /\ pc = "build"
    /\ LET r == calculate_volume_ratio(df, VolumePeriods)
       IN  /\ r.raised = ""
           /\ df' = r.out
           /\ df2' = r.caller
    /\ variant' = [kind |-> "raw", at |-> 0]
    /\ pc' = "ready"
    /\ UNCHANGED <<horizon, threshold, config, labels, labels2,
                   indicators, indicators2, events, events2>>

NextVolume ==
    \/ SurgeBar
    \/ CallCalculateVolumeRatio
    \/ CallDetectAllEvents
    \/ CallDetectAllEventsAgain

SpecVolume == InitVolume /\ [][NextVolume]_vars

\* C26: the volume rule gives the same signal from the volume_ratio column
\* that calculate_volume_ratio produced and from the raw volume of the panel
\* without that column.
C26_VolumeRulePathsAgree ==
    (/\ pc = "done" /\ variant.kind = "raw"
     /\ events.raised = "" /\ events2.raised = "") =>
        \A name \in RuleNames(config) : SameColumn(events, events2, name)

----------------------------------------------------------------------------
(* The breakout run: the indicator engine and then the event detector,     *)
(* with the price_breakout rule at its defaults (period 20, up), on the    *)
(* same bars.  Entity 2 may have no bar on one date on which entity 1 has  *)
(* one.                                                                    *)

BreakoutRules ==
    << [name |-> "break_20d_high", type |-> "price_breakout",
        params |-> [direction |-> "up"]] >>

BreakLengths == {21, MaxBars}

RallyBars == {12, 21, 22}

RallyHeights == {1, 40}

Rallied(panel, i, h) ==
    LET s == panel.rows[i]["stock_id"]
    IN  SetCell(SetCell(panel, i, "close", R(1000 * s + h)),
                i, "high", R(1000 * s + h + 1))

InitBreakout ==
    /\ \E n \in BreakLengths, g \in Gaps : \E m \in {0, n} :
          df = [cols |-> BarCols,
                rows |-> History(1, m)
                         \o SelectSeq(History(2, n), LAMBDA r : r["date"] # g)]
    /\ horizon = 10 /\ threshold = Norm(5, 100)
    /\ config = BreakoutRules
    /\ NothingCalled

\* one late bar of entity 2 closes higher than its open
RallyBar ==
    /\ pc = "build"
    /\ \A i \in DOMAIN df.rows :
          df.rows[i]["close"] = BaseBar(df.rows[i]["stock_id"], df.rows[i]["date"])["close"]
    /\ \E k \in RallyBars, h \in RallyHeights :
          /\ RowOf(df, 2, k) # 0
          /\ df' = Rallied(df, RowOf(df, 2, k), h)
    /\ UNCHANGED <<df2, horizon, threshold, config, labels, labels2,
                   indicators, indicators2, events, events2, variant, pc>>

NextBreakout ==
    \/ RallyBar
    \/ SamePanel
    \/ CallCalculateAllIndicators
    \/ FeedOutput
    \/ CallDetectAllEventsAgain

SpecBreakout == InitBreakout /\ [][NextBreakout]_vars

----------------------------------------------------------------------------
(* Properties of the signal run                                            *)

\* the number of bars of stock s in the panel
BarCount(panel, s) ==
    Cardinality({i \in DOMAIN panel.rows : panel.rows[i]["stock_id"] = s})

\* the n-th bar of stock s in date order
NthBar(panel, s, n) ==
    panel.rows[CHOOSE i \in DOMAIN panel.rows :
        /\ panel.rows[i]["stock_id"] = s
        /\ Cardinality({j \in DOMAIN panel.rows :
                           /\ panel.rows[j]["stock_id"] = s
                           /\ panel.rows[j]["date"] < panel.rows[i]["date"]}) = n - 1]

\* the value of the rule's column on the n-th bar of stock s
Signal(res, panel, s, n, name) ==
    Cell(res.out, s, NthBar(panel, s, n)["date"], name)

\* fast is above (below, for down) slow on the n-th bar of stock s
Beyond(panel, s, n, direction) ==
    IF direction = "up"
    THEN Gt(NthBar(panel, s, n)["ma5"], NthBar(panel, s, n)["ma20"])
    ELSE Lt(NthBar(panel, s, n)["ma5"], NthBar(panel, s, n)["ma20"])

\* fast was at or on the other side of slow on the bar before the n-th
NotBeyondBefore(panel, s, n, direction) ==
    /\ n > 1
    /\ IF direction = "up"
       THEN Le(NthBar(panel, s, n - 1)["ma5"], NthBar(panel, s, n - 1)["ma20"])
       ELSE Ge(NthBar(panel, s, n - 1)["ma5"], NthBar(panel, s, n - 1)["ma20"])

CrossRules == {<<"golden_cross", "up">>, <<"death_cross", "down">>}

\* C16: a crossover rule fires on a bar exactly when fast was not beyond slow
\* on the entity's previous bar and is beyond it on this bar; so it fires
\* only on the first bar of a run of bars with fast beyond slow, and never on
\* two consecutive bars.
C16_CrossoverFiresOnCrossingBarOnly ==
    (events.raised = "" /\ config = StandardRules) =>
        \A s \in Stocks(df.rows) : \A n \in 1..BarCount(df, s) : \A r \in CrossRules :
            /\ Signal(events, df, s, n, r[1]) =
                  Flag(NotBeyondBefore(df, s, n, r[2]) /\ Beyond(df, s, n, r[2]))
            /\ Signal(events, df, s, n, r[1]) = R(1) =>
                  /\ Beyond(df, s, n, r[2])
                  /\ n > 1 /\ ~Beyond(df, s, n - 1, r[2])
                  /\ Signal(events, df, s, n - 1, r[1]) = R(0)

\* the golden cross fires on a bar of entity 2 that is followed by a bar on
\* which fast is still above slow, and the death cross fires too
C16_Witness ==
    /\ events.raised = "" /\ config = StandardRules
    /\ \E n \in 2..(BarCount(df, 2) - 1) :
          /\ Signal(events, df, 2, n, "golden_cross") = R(1)
          /\ Beyond(df, 2, n + 1, "up")
          /\ Signal(events, df, 2, n + 1, "golden_cross") = R(0)
    /\ Fired(events, 2, "death_cross")

\* C29: between two bars of an entity on which the up crossing of ma5 over
\* ma20 fires there is a bar on which the down crossing fires, and the two
\* never fire on the same bar.
C29_CrossingsAlternate ==
    (events.raised = "" /\ config = StandardRules) =>
        \A s \in Stocks(df.rows) : \A n \in 1..BarCount(df, s) :
            /\ ~(/\ Signal(events, df, s, n, "golden_cross") = R(1)
                 /\ Signal(events, df, s, n, "death_cross") = R(1))
            /\ \A m \in 1..(n - 1) :
                  (/\ Signal(events, df, s, m, "golden_cross") = R(1)
                   /\ Signal(events, df, s, n, "golden_cross") = R(1)) =>
                      \E j \in (m + 1)..(n - 1) :
                          Signal(events, df, s, j, "death_cross") = R(1)

\* a threshold_cross rule on a column, the crossover rule on the same two
\* columns, and the direction
TwiceStated == {<<"ma5_over_ma20", "golden_cross">>,
                <<"ma5_under_ma20", "death_cross">>,
                <<"ma20_over_ma5", "cross_ma20_ma5">>}

\* C24: a threshold_cross rule whose threshold names a column gives the
\* signal of the crossover rule with fast = target and slow = threshold in
\* the same direction; with the number 2000 as threshold the up rule fires
\* on a bar exactly when the entity's previous target value was at most 2000
\* and the current one is above 2000 (the down rule: at least, below).
C24_ThresholdCrossGeneralisesCrossover ==
    (events.raised = "" /\ config = CrossingRules) =>
        /\ \A p \in TwiceStated : \A i \in DOMAIN events.out.rows :
              events.out.rows[i][p[1]] = events.out.rows[i][p[2]]
        /\ \A s \in Stocks(df.rows) : \A n \in 1..BarCount(df, s) :
              /\ Signal(events, df, s, n, "ma5_over_2000") =
                    Flag(/\ n > 1
                         /\ Le(NthBar(df, s, n - 1)["ma5"], R(2000))
                         /\ Gt(NthBar(df, s, n)["ma5"], R(2000)))
              /\ Signal(events, df, s, n, "ma5_under_2000") =
                    Flag(/\ n > 1
                         /\ Ge(NthBar(df, s, n - 1)["ma5"], R(2000))
                         /\ Lt(NthBar(df, s, n)["ma5"], R(2000)))

\* every rule of the configuration fires on entity 2; the target crosses the
\* number from a bar on which it was equal to it
C24_Witness ==
    /\ events.raised = "" /\ config = CrossingRules
    /\ \A k \in DOMAIN config : Fired(events, 2, config[k].name)
    /\ \E n \in 2..BarCount(df, 2) :
          /\ NthBar(df, 2, n - 1)["ma5"] = R(2000)
          /\ Signal(events, df, 2, n, "ma5_over_2000") = R(1)

\* the least upper shadow, as a share of the close, that the engine's
\* long_upper_shadow flag asks for
ShadowFloor == Norm(5, 1000)

UpperShadow(bar) == Sub(bar["high"], RowMax(bar["open"], bar["close"]))

Body(bar) == AbsR(Sub(bar["close"], bar["open"]))

\* C25: the pattern rule long_upper_shadow fires on a bar only if the upper
\* shadow exceeds body * ratio and also exceeds the floor; a doji bar
\* (open = close) whose upper shadow is positive and not above the floor
\* does not fire.
C25_LongUpperShadowHasFloor ==
    (events.raised = "" /\ config = StandardRules) =>
        \A s \in Stocks(df.rows) : \A n \in 1..BarCount(df, s) :
            LET bar == NthBar(df, s, n)
            IN  Signal(events, df, s, n, "upper_shadow") = R(1) =>
                  /\ Gt(UpperShadow(bar), Mul(Body(bar), R(2)))
                  /\ Gt(UpperShadow(bar), Mul(bar["close"], ShadowFloor))

\* close of the n-th bar is above the high (below the low, for down) of each
\* of the period bars before it
BreaksOut(panel, s, n, period, direction) ==
    /\ n > period
    /\ \A j \in (n - period)..(n - 1) :
          IF direction = "up"
          THEN Gt(NthBar(panel, s, n)["close"], NthBar(panel, s, j)["high"])
          ELSE Lt(NthBar(panel, s, n)["close"], NthBar(panel, s, j)["low"])

BreakRules == {<<"break_up", "up">>, <<"break_down", "down">>}

\* C18: price_breakout with period 2 fires on a bar exactly when the entity
\* has at least 2 bars before it and the close is strictly above the highest
\* high (below the lowest low) of the 2 preceding bars; the bar's own high
\* and low do not count.
C18_BreakoutExcludesCurrentBar ==
    (events.raised = "" /\ config = StandardRules) =>
        \A s \in Stocks(df.rows) : \A n \in 1..BarCount(df, s) : \A r \in BreakRules :
            Signal(events, df, s, n, r[1]) = Flag(BreaksOut(df, s, n, 2, r[2]))

\* one bar of entity 2 breaks out upwards, another one has a high above
\* every earlier high and does not fire, and a third breaks out downwards
C18_Witness ==
    /\ events.raised = "" /\ config = StandardRules
    /\ Fired(events, 2, "break_up") /\ Fired(events, 2, "break_down")
    /\ \E n \in 3..BarCount(df, 2) :
          /\ \A j \in 1..(n - 1) :
                Gt(NthBar(df, 2, n)["high"], NthBar(df, 2, j)["high"])
          /\ Signal(events, df, 2, n, "break_up") = R(0)

----------------------------------------------------------------------------
(* Properties of the breakout run                                          *)

\* C27: on every row the engine's break_20d_high and the detector's
\* price_breakout(period 20, up) are equal, and they are 1 exactly on the
\* bars whose close exceeds the highest high of the entity's 20 preceding
\* bars.
C27_EngineFlagEqualsBreakoutRule ==
    (pc = "done" /\ indicators.raised = "" /\ events2.raised = "") =>
        \A s \in Stocks(df.rows) : \A n \in 1..BarCount(df, s) :
            /\ Signal(indicators, df, s, n, "break_20d_high") =
                  Signal(events2, df, s, n, "break_20d_high")
            /\ Signal(events2, df, s, n, "break_20d_high") =
                  Flag(BreaksOut(df, s, n, 20, "up"))

----------------------------------------------------------------------------
(* Further properties of the indicator run                                 *)

\* the window of the windowed numeric indicators
Window ==
    [ma5 |-> 5, ma10 |-> 10, ma20 |-> 20, ma60 |-> 60, bb_middle |-> 20,
     pct_from_high_60d |-> 60, pct_from_low_60d |-> 60,
     pct_from_high_250d |-> 250, pct_from_low_250d |-> 250]

\* C19: an indicator with window n is null on the first n-1 bars of an
\* entity's own history and a number on every later bar, whatever bars the
\* other entities have.
C19_WarmUpIsOwnFirstBars ==
    indicators.raised = "" =>
        \A s \in Stocks(df.rows) : \A n \in 1..BarCount(df, s) : \A c \in DOMAIN Window :
            IsNum(Cell(indicators.out, s, NthBar(df, s, n)["date"], c)) <=> n >= Window[c]

\* C20: on a panel without one of open, high, low, close, volume the call
\* returns, and when only high is missing the moving averages are there.
C20_MissingBaseColumnSkipsOnlyItsFamilies ==
    (pc = "done" /\ variant.kind \in {"open", "high", "low", "close", "volume"}) =>
        /\ indicators2.raised = ""
        /\ variant.kind = "high" =>
              {"ma5", "ma10", "ma20", "ma60"} \subseteq indicators2.out.cols

----------------------------------------------------------------------------
(* The RSI run: calculate_rsi on short histories of small prices.  Entity  *)
(* 1 has a bar on every date and a close that moves by at most one tick a  *)
(* day; entity 2, when present, starts on the second date and rises.       *)

\* most bars of an entity in the RSI run
MaxRsiBars == 4

RsiLengths == {2, 3, MaxRsiBars}

Ticks == 7..13

\* the closes of entity 1 over n dates
Walks(n) ==
    {w \in [1..n -> Ticks] :
        w[1] = 10 /\ \A t \in 2..n : w[t] - w[t - 1] \in {-1, 0, 1}}

RsiBar(s, d, c) ==
    [stock_id |-> s, date |-> d, open |-> R(c), high |-> R(c), low |-> R(c),
     close |-> R(c), volume |-> R(1000)]

InitRsi ==
    /\ \E n \in RsiLengths, other \in BOOLEAN : \E w \in Walks(n) :
          df = [cols |-> BarCols,
                rows |-> [d \in 1..n |-> RsiBar(1, d, w[d])]
                         \o (IF other THEN [k \in 1..(n - 1) |-> RsiBar(2, k + 1, 20 + k)]
                             ELSE <<>>)]
    /\ horizon = 10 /\ threshold = Norm(5, 100)
    /\ config = <<>>
    /\ NothingCalled

CallCalculateRsi ==
    /\ pc = "ready"
    /\ LET r == calculate_rsi(df)
       IN  indicators' = r /\ df' = r.caller
    /\ pc' = "again"
    /\ UNCHANGED <<df2, horizon, threshold, config, labels, labels2,
                   indicators2, events, events2, variant>>

CallCalculateRsiAgain ==
    /\ pc = "again"
    /\ LET r == calculate_rsi(df2)
       IN  indicators2' = r /\ df2' = r.caller
    /\ pc' = "done"
    /\ UNCHANGED <<df, horizon, threshold, config, labels, labels2,
                   indicators, events, events2, variant>>

NextRsi ==
    \/ SamePanel
    \/ ReorderRows
    \/ CallCalculateRsi
    \/ CallCalculateRsiAgain

SpecRsi == InitRsi /\ [][NextRsi]_vars

\* the close of stock s has not fallen from one of its bars to the next up
\* to its n-th bar: the average loss, the denominator of rs, is zero there
NoLossSoFar(panel, s, n) ==
    /\ n >= 2
    /\ \A j \in 2..n : Ge(NthBar(panel, s, j)["close"], NthBar(panel, s, j - 1)["close"])

\* C21: where the denominator of a ratio is zero the indicator is null; for
\* the RSI, on every bar up to which the entity's close has never fallen.
C21_ZeroDenominatorGivesNull ==
    indicators.raised = "" =>
        \A s \in Stocks(df.rows) : \A n \in 1..BarCount(df, s) :
            NoLossSoFar(df, s, n) =>
                ~IsNum(Cell(indicators.out, s, NthBar(df, s, n)["date"], "rsi"))

----------------------------------------------------------------------------
(* Properties of a re-run of the indicator engine                          *)

----------------------------------------------------------------------------
(* The stage run: each of the three stages is called on the enriched       *)
(* panel, and again on the second panel (the same rows in another order,   *)
(* or without one column).                                                 *)

\* the driver goes on to another stage with the second panel
NextStage ==
    /\ pc = "done"
    /\ NotCalled \in {labels2, indicators2, events2}
    /\ pc' = "again"
    /\ UNCHANGED <<df, df2, horizon, threshold, config, labels, labels2,
                   indicators, indicators2, events, events2, variant>>

NextStages ==
    \/ NextStage
    \/ JumpBar
    \/ SamePanel
    \/ ReorderRows
    \/ LoseColumn
    \/ CallCalculateAllIndicators
    \/ CallDetectAllEvents
    \/ CallGenerateLabels
    \/ CallCalculateAllIndicatorsAgain
    \/ CallDetectAllEventsAgain
    \/ CallGenerateLabelsAgain

SpecStages == InitEvents /\ [][NextStages]_vars

====
